---- MODULE Spec2Model ----
(***************************************************************************)
(* State-machine model of the galorio gallery:                             *)
(*   - the collection row layout of js/gallery.js (image probes joined by  *)
(*     Promise.all, then setCollectionRowHeight);                          *)
(*   - the zoom / pan / momentum viewer of js/artwork-detail.js and the    *)
(*     simpler viewer of galorio-static/js/artwork-detail.js.              *)
(* JavaScript numbers are modelled as exact rationals with NaN and         *)
(* Infinity in the layout part, and as fixed-point integers (thousandths)  *)
(* in the viewer part.                                                     *)
(***************************************************************************)
EXTENDS Integers, Sequences, FiniteSets, TLC

VARIABLES
    \* ---- collection row (js/gallery.js) ----
    outcome,        \* per artwork: what loading artwork.imageUrl yields
    imgSrc,         \* per artwork: image.src, "original" or "placeholder"
    imgStatus,      \* per artwork: "loading" or "complete"
    promise,        \* per artwork: imageLoadPromise, pending or fulfilled
    allValues,      \* Promise.all: the values array under construction
    allRemaining,   \* Promise.all: number of promises not yet fulfilled
    allState,       \* Promise.all: "pending" or "fulfilled"
    rowHeight,      \* the row's --collection-height
    elemWidth,      \* per artwork element: style.width
    elemHeight,     \* per artwork element: style.height
    arrival,        \* history: indices of the probes in the order they settled
    \* ---- artwork detail viewer (artwork-detail.js) ----
    page,                \* which artwork-detail.js the page runs
    zoomLevel,
    isDragging,
    dragStart,
    imageOffset,
    velocity,
    lastDragPosition,
    animationFrameId,    \* "null" or the handle of the frame drag() requested
    momentumAnimationId, \* "null" or the handle of the last momentum frame
    rafDrag,             \* browser: pending frame callbacks requested by drag()
    rafMomentum,         \* browser: pending momentumStep frame callbacks
    transformScale,      \* DOM: the scale() of the image's style.transform
    imageLoadPending,    \* DOM: a load of #artwork-image is in flight
    currentImageIndex,   \* index (from 0) in currentImages of the image shown
    inputsLeft,          \* number of user input events still to come
    lastOp,              \* history: the handler that ran last
    \* ---- inventory (build.js, metadata.js) ----
    table,          \* the table whose text the file holds, when it is known
    csvFile,        \* config/artwork-inventory.csv: whether it exists, its text
    called,         \* the functions that have been called
    buildData,      \* what parseCSV of build.js returned
    runtimeData,    \* what MetadataProcessor.parseCSV returned
    portfolioData,  \* what buildPortfolio returned
    \* ---- catalog at run time (js/metadata.js, part_001) ----
    version,          \* which MetadataProcessor runs: "metadata.js" or "part_001"
    step,             \* how far initialize() has come
    collectionsCsv,   \* config/collections.csv: whether it is served, its rows
    portfolioJson,    \* data/portfolio.json: what it holds, if it is served
    thisCsvConfig,    \* this.csvConfig
    thisArtworks,     \* this.artworks
    thisCollections,  \* this.collections
    seeded,           \* history: the ids of this.collections before processCollections
    catalog,          \* what initialize() returned
    collectionName,   \* the argument of normalizeCollectionName
    normalized,       \* what normalizeCollectionName returned
    buildConfig,      \* build.config.json: what it holds, if it is there
    scriptData,       \* what buildPortfolio() of the build script returned
    pricingCell,      \* row.Pricing, the argument of extractPrice
    price,            \* what extractPrice returned
    \* ---- navigation of a collection row (js/gallery.js) ----
    collectionScrollPositions, \* this.collectionScrollPositions, a Map
    scrollPosition,   \* setupCollectionNavigation: let scrollPosition
    startX,           \* setupCollectionNavigation: let startX
    currentX,         \* setupCollectionNavigation: let currentX
    rowDragging,      \* setupCollectionNavigation: let isDragging
    translateX,       \* DOM: px the artworks container is translated to the left
    rowControls,      \* DOM: disabled of the two buttons, fade classes of the row
    scrollWidth,      \* DOM: artworksContainer.scrollWidth
    clientWidth,      \* DOM: clientWidth of the .collection-scroll-container
    timerPending,     \* browser: setTimeout(updateButtons, 100) has not fired
    navOp,            \* history: the handler of the row that ran last
    touchLast,        \* history: clientX of the last touch of the last gesture
    swiped,           \* history: the button the last touchend clicked
    \* ---- renders of a collection row (js/gallery.js) ----
    probeOutcomes,    \* per artwork of the collection: what loading its image yields
    renderedRows,     \* the rows createCollectionRow has built, oldest first
    displayed,        \* the number of the row that is in the container
    settled,          \* history: the row and the artwork of the probe settled last
    imageFiles,       \* whether the thumbnail and the original of the artwork load
    thumbnails        \* the images createCollectionArtwork has built, oldest first

layoutVars == <<outcome, imgSrc, imgStatus, promise, allValues, allRemaining,
                allState, rowHeight, elemWidth, elemHeight, arrival>>

viewerVars == <<page, zoomLevel, isDragging, dragStart, imageOffset, velocity,
                lastDragPosition, animationFrameId, momentumAnimationId,
                rafDrag, rafMomentum, transformScale, imageLoadPending,
                currentImageIndex, inputsLeft, lastOp>>

catalogVars == <<table, csvFile, called, buildData, runtimeData, portfolioData>>

processorVars == <<version, step, collectionsCsv, portfolioJson, thisCsvConfig,
                   thisArtworks, thisCollections, seeded, catalog, collectionName,
                   normalized>>

scriptVars == <<buildConfig, scriptData, pricingCell, price>>

navVars == <<collectionScrollPositions, scrollPosition, startX, currentX,
             rowDragging, translateX, rowControls, scrollWidth, clientWidth,
             timerPending, navOp, touchLast, swiped>>

renderVars == <<probeOutcomes, renderedRows, displayed, settled, imageFiles,
                thumbnails>>

galleryVars == <<navVars, renderVars>>

vars == <<layoutVars, viewerVars, catalogVars, processorVars, scriptVars, galleryVars>>

\* ------------------------------------------------------------------------
\* Bounds of the model
\* ------------------------------------------------------------------------
MaxArtworks == 3

\* The natural sizes an image of the catalog may report when it loads.
NaturalSizes ==
    { <<0, 0>>, <<0, 200>>, <<400, 0>>, <<300, 200>>, <<200, 300>>,
      <<1000, 100>>, <<100, 1000>> }

\* ------------------------------------------------------------------------
\* JavaScript numbers of the layout: non-negative rationals, NaN, Infinity
\* ------------------------------------------------------------------------
RECURSIVE GCD(_, _)
GCD(a, b) == IF b = 0 THEN a ELSE GCD(b, a % b)

NaN == [k |-> "nan", n |-> 0, d |-> 1]
Infinity == [k |-> "inf", n |-> 0, d |-> 1]
Unset == [k |-> "unset", n |-> 0, d |-> 1]
Num(n, d) == LET g == GCD(n, d) IN [k |-> "num", n |-> n \div g, d |-> d \div g]
Whole(n) == [k |-> "num", n |-> n, d |-> 1]

\* a / b
FDiv(a, b) ==
    IF a.k = "nan" \/ b.k = "nan" THEN NaN
    ELSE IF a.k = "inf" THEN (IF b.k = "inf" THEN NaN ELSE Infinity)
    ELSE IF b.k = "inf" THEN Whole(0)
    ELSE IF b.n = 0 THEN (IF a.n = 0 THEN NaN ELSE Infinity)
    ELSE Num(a.n * b.d, a.d * b.n)

\* a * b
FMul(a, b) ==
    IF a.k = "nan" \/ b.k = "nan" THEN NaN
    ELSE IF a.k = "inf" THEN (IF b.k = "num" /\ b.n = 0 THEN NaN ELSE Infinity)
    ELSE IF b.k = "inf" THEN (IF a.n = 0 THEN NaN ELSE Infinity)
    ELSE Num(a.n * b.n, a.d * b.d)

\* a <= b, false when either is NaN
FLeq(a, b) ==
    /\ a.k # "nan" /\ b.k # "nan"
    /\ \/ b.k = "inf"
       \/ a.k = "num" /\ b.k = "num" /\ a.n * b.d <= b.n * a.d

\* Math.max(a, b) and Math.min(a, b): NaN if either argument is NaN
MathMax2(a, b) ==
    IF a.k = "nan" \/ b.k = "nan" THEN NaN ELSE IF FLeq(a, b) THEN b ELSE a

MathMin2(a, b) ==
    IF a.k = "nan" \/ b.k = "nan" THEN NaN ELSE IF FLeq(a, b) THEN a ELSE b

\* Math.max(...s) of a non-empty sequence
RECURSIVE MathMax(_)
MathMax(s) ==
    IF Len(s) = 1 THEN s[1] ELSE MathMax2(s[1], MathMax(Tail(s)))

\* ------------------------------------------------------------------------
\* createCollectionArtworkWithPromise: the image probe
\* ------------------------------------------------------------------------
PlaceholderWidth == 350
PlaceholderHeight == 250
FallbackWidth == 300
FallbackHeight == 200

\* the object an onload handler resolves the promise with
Dimensions(w, h) ==
    [width |-> w, height |-> h, aspectRatio |-> FDiv(Whole(w), Whole(h))]

\* the object the onerror handler of the promise executor resolves with
\* (aspectRatio: 1.5)
FallbackDimensions ==
    [width |-> FallbackWidth, height |-> FallbackHeight, aspectRatio |-> Num(3, 2)]

\* The handlers of the image element when the function returns: the promise
\* executor installs onload and onerror, then image.onerror is assigned again.
ImageHandlers ==
    LET executor == [onload |-> "resolveNatural", onerror |-> "resolveFallback"]
    IN [executor EXCEPT !.onerror = "swapPlaceholder"]

\* image.naturalWidth / naturalHeight of artwork i's image element
NaturalWidth(i) ==
    IF imgSrc[i] = "placeholder" THEN PlaceholderWidth ELSE outcome[i].w
NaturalHeight(i) ==
    IF imgSrc[i] = "placeholder" THEN PlaceholderHeight ELSE outcome[i].h

\* a slot that holds no value yet
Undefined == [width |-> 0, height |-> 0, aspectRatio |-> Unset]

Pending == [state |-> "pending", value |-> Undefined]
Fulfilled(v) == [state |-> "fulfilled", value |-> v]

\* ------------------------------------------------------------------------
\* Promise.all(imageLoadPromises)
\* ------------------------------------------------------------------------
\* Promise.all stores the value of the i-th promise at index i
PromiseAllCollectArrival(values, i, v) ==
    [values EXCEPT ![Len(arrival) + 1] = v]

PromiseAllCollect(values, i, v) == [values EXCEPT ![i] = v]

\* Promise.all is fulfilled when no promise remains unfulfilled
PromiseAllFulfilledAny(remaining) == remaining < Len(outcome)

PromiseAllFulfilled(remaining) == remaining = 0

\* ------------------------------------------------------------------------
\* setCollectionRowHeight(row, imageDimensions)
\* ------------------------------------------------------------------------
StandardWidth == 250
MinRowHeight == 150
MaxRowHeight == 400

Heights(imageDimensions) ==
    [i \in 1..Len(imageDimensions) |->
        FDiv(Whole(StandardWidth), imageDimensions[i].aspectRatio)]

ClampedHeight(imageDimensions) ==
    MathMin2(MathMax2(MathMax(Heights(imageDimensions)), Whole(MinRowHeight)),
             Whole(MaxRowHeight))

CalculatedWidth(clampedHeight, dimensions) ==
    FMul(clampedHeight, dimensions.aspectRatio)

SetCollectionRowHeight(imageDimensions) ==
    LET clampedHeight == ClampedHeight(imageDimensions) IN
    /\ rowHeight' = clampedHeight
    /\ elemWidth' = [i \in 1..Len(imageDimensions) |->
                        CalculatedWidth(clampedHeight, imageDimensions[i])]
    /\ elemHeight' = [i \in 1..Len(imageDimensions) |-> clampedHeight]

\* ------------------------------------------------------------------------
\* createCollectionRow: state after the row has been built
\* ------------------------------------------------------------------------
Outcomes ==
    { [ok |-> TRUE, w |-> s[1], h |-> s[2]] : s \in NaturalSizes }
    \cup { [ok |-> FALSE, w |-> 0, h |-> 0] }

RowInit ==
    /\ \E n \in 1..MaxArtworks : outcome \in [1..n -> Outcomes]
    /\ imgSrc = [i \in 1..Len(outcome) |-> "original"]
    /\ imgStatus = [i \in 1..Len(outcome) |-> "loading"]
    /\ promise = [i \in 1..Len(outcome) |-> Pending]
    /\ allValues = [i \in 1..Len(outcome) |-> Undefined]
    /\ allRemaining = Len(outcome)
    /\ allState = "pending"
    /\ rowHeight = Unset
    /\ elemWidth = [i \in 1..Len(outcome) |-> Unset]
    /\ elemHeight = [i \in 1..Len(outcome) |-> Unset]
    /\ arrival = <<>>

\* no collection row is rendered (the artwork detail page)
NoRow ==
    /\ outcome = <<>> /\ imgSrc = <<>> /\ imgStatus = <<>> /\ promise = <<>>
    /\ allValues = <<>> /\ allRemaining = 0 /\ allState = "pending"
    /\ rowHeight = Unset /\ elemWidth = <<>> /\ elemHeight = <<>>
    /\ arrival = <<>>

\* resolve(v) of promise i, followed by the reactions it triggers before the
\* next event is handled: Promise.all records the value and, once fulfilled,
\* its then-callback runs setCollectionRowHeight.
Resolve(i, v) ==
    IF promise[i].state # "pending"
    THEN UNCHANGED <<promise, allValues, allRemaining, allState, rowHeight,
                     elemWidth, elemHeight, arrival>>
    ELSE
        LET values == PromiseAllCollect(allValues, i, v)
            remaining == allRemaining - 1
        IN
        /\ promise' = [promise EXCEPT ![i] = Fulfilled(v)]
        /\ allValues' = values
        /\ allRemaining' = remaining
        /\ arrival' = Append(arrival, i)
        /\ IF allState = "pending" /\ PromiseAllFulfilled(remaining)
           THEN /\ allState' = "fulfilled"
                /\ SetCollectionRowHeight(values)
           ELSE UNCHANGED <<allState, rowHeight, elemWidth, elemHeight>>

\* the load event of artwork i's image
ImageLoad(i) ==
    /\ imgStatus[i] = "loading"
    /\ imgSrc[i] = "placeholder" \/ outcome[i].ok
    /\ imgStatus' = [imgStatus EXCEPT ![i] = "complete"]
    /\ UNCHANGED <<outcome, imgSrc, viewerVars, catalogVars, processorVars, scriptVars, galleryVars>>
    /\ Resolve(i, Dimensions(NaturalWidth(i), NaturalHeight(i)))

\* the error event of artwork i's image
ImageError(i) ==
    /\ imgStatus[i] = "loading"
    /\ imgSrc[i] = "original" /\ ~outcome[i].ok
    /\ UNCHANGED <<outcome, viewerVars, catalogVars, processorVars, scriptVars, galleryVars>>
    /\ IF ImageHandlers.onerror = "resolveFallback"
       THEN /\ imgStatus' = [imgStatus EXCEPT ![i] = "complete"]
            /\ UNCHANGED imgSrc
            /\ Resolve(i, FallbackDimensions)
       ELSE /\ imgSrc' = [imgSrc EXCEPT ![i] = "placeholder"]
            /\ UNCHANGED <<imgStatus, promise, allValues, allRemaining,
                           allState, rowHeight, elemWidth, elemHeight, arrival>>


NextLayout ==
    \/ \E i \in 1..Len(outcome) : ImageLoad(i)
    \/ \E i \in 1..Len(outcome) : ImageError(i)

\* ------------------------------------------------------------------------
\* Artwork detail viewer: numbers are fixed-point, in thousandths
\* (zoomLevel 1300 is 1.3; offsets and velocities are thousandths of a pixel)
\* ------------------------------------------------------------------------
\* user input events of a session with pointer events
MaxInputs == 5
\* user input events of a session of zoom controls only
MaxZoomInputs == 8
\* user input events of a session that is checked for termination of momentum
MaxMomentumInputs == 4
\* user input events of a session with the viewer without momentum
MaxStaticInputs == 5

\* e.clientX, e.clientY of the pointer events, in pixels
Pointers == { <<0, 0>>, <<1, 0>>, <<30, 20>> }

\* Date.now() - lastDragTime at a mousemove, in milliseconds
TimeDeltas == { 0, 16, 64 }

\* layout box of #artwork-image, of .image-viewport, and the image's natural
\* size, in pixels
Geometry ==
    [imageWidth |-> 90, imageHeight |-> 80,
     viewportWidth |-> 100, viewportHeight |-> 100,
     naturalWidth |-> 360, naturalHeight |-> 320]

\* currentImages: the artwork's image and one numbered version of it
CurrentImages == << "artwork.jpg", "artwork_001.jpg" >>

Unit == 10 * 100

Min(a, b) == IF a <= b THEN a ELSE b
Max(a, b) == IF a >= b THEN a ELSE b
Abs(x) == IF x >= 0 THEN x ELSE -x

\* n / d rounded to the nearest integer, d > 0
RoundDiv(n, d) ==
    IF n >= 0 THEN (n + d \div 2) \div d ELSE -((-n + d \div 2) \div d)

Vec(x, y) == [x |-> x, y |-> y]
Zero == Vec(0, 0)

\* Math.sqrt(v.x * v.x + v.y * v.y) > limit
MagnitudeAbove(v, limit) == v.x * v.x + v.y * v.y > limit * limit

ZoomInFactor == 1300
WheelInFactor == 1100
WheelOutFactor == 900
MinZoom == 500
MaxZoom == 5000
FrameInterval == 16
Friction == 920
MinVelocity == 100
MomentumThreshold == 500

Op(name, accepted, cancelled) ==
    [name |-> name, accepted |-> accepted, cancelled |-> cancelled]

\* if (momentumAnimationId) { cancelAnimationFrame(momentumAnimationId);
\*                            momentumAnimationId = null; }
KeepMomentum == [id |-> momentumAnimationId, frames |-> rafMomentum]

CancelMomentum ==
    [id |-> "null",
     frames |-> IF momentumAnimationId # "null"
                THEN Max(0, rafMomentum - 1) ELSE rafMomentum]

\* artworkImage.getBoundingClientRect(): the layout box under the transform
\* currently applied to the element
ImageRectWidth(scale) == Geometry.imageWidth * scale
ImageRectHeight(scale) == Geometry.imageHeight * scale

\* maxOffsetX and maxOffsetY of constrainImagePosition, for the value of the
\* global zoomLevel and the transform applied when it is called
MaxOffsetX(zoom, scale) ==
    LET scaledWidth == RoundDiv(RoundDiv(ImageRectWidth(scale), 10) * zoom, 100)
    IN Max(0, (scaledWidth - Geometry.viewportWidth * Unit) \div 2)

MaxOffsetY(zoom, scale) ==
    LET scaledHeight == RoundDiv(RoundDiv(ImageRectHeight(scale), 10) * zoom, 100)
    IN Max(0, (scaledHeight - Geometry.viewportHeight * Unit) \div 2)

ConstrainImagePosition(offset, zoom, scale) ==
    IF zoom <= Unit THEN Zero
    ELSE Vec(Max(-MaxOffsetX(zoom, scale), Min(MaxOffsetX(zoom, scale), offset.x)),
             Max(-MaxOffsetY(zoom, scale), Min(MaxOffsetY(zoom, scale), offset.y)))

\* centerImage: the scale it leaves in style.transform
CenterScale ==
    LET scaleX == RoundDiv(Geometry.viewportWidth * 4 * Unit, Geometry.naturalWidth)
        scaleY == RoundDiv(Geometry.viewportHeight * 4 * Unit, Geometry.naturalHeight)
    IN Min(Min(scaleX, scaleY), Unit)

ViewerInit(p, n) ==
    /\ page = p
    /\ zoomLevel = Unit
    /\ isDragging = FALSE
    /\ dragStart = Zero
    /\ imageOffset = Zero
    /\ velocity = Zero
    /\ lastDragPosition = Zero
    /\ animationFrameId = "null"
    /\ momentumAnimationId = "null"
    /\ rafDrag = 0
    /\ rafMomentum = 0
    /\ transformScale = Unit
    /\ imageLoadPending = (p = "enhanced")
    /\ currentImageIndex = 0
    /\ inputsLeft = n
    /\ lastOp = Op("init", FALSE, FALSE)

\* a user input event is handled
Input ==
    /\ inputsLeft > 0
    /\ inputsLeft' = inputsLeft - 1
    /\ UNCHANGED <<layoutVars, catalogVars, processorVars, scriptVars, galleryVars, page, imageLoadPending, currentImageIndex>>

\* ---- js/artwork-detail.js (momentum-enabled viewer) ----

\* click on #zoom-in
ZoomInLevel(zoom) == Min(RoundDiv(zoom * ZoomInFactor, Unit), MaxZoom)

ZoomIn ==
    /\ page = "enhanced"
    /\ Input
    /\ lastOp' = Op("zoomIn", TRUE, momentumAnimationId # "null")
    /\ rafMomentum' = CancelMomentum.frames
    /\ momentumAnimationId' = CancelMomentum.id
    /\ velocity' = IF momentumAnimationId # "null" THEN Zero ELSE velocity
    /\ zoomLevel' = ZoomInLevel(zoomLevel)
    /\ imageOffset' = ConstrainImagePosition(imageOffset, zoomLevel', transformScale)
    /\ transformScale' = zoomLevel'
    /\ UNCHANGED <<isDragging, dragStart, lastDragPosition, animationFrameId, rafDrag>>

\* click on #zoom-out
ZoomOutLevelUnclamped(zoom) == RoundDiv(zoom * Unit, ZoomInFactor)

ZoomOutLevel(zoom) == Max(RoundDiv(zoom * Unit, ZoomInFactor), MinZoom)

ZoomOut ==
    LET newZoomLevel == ZoomOutLevel(zoomLevel) IN
    /\ page = "enhanced"
    /\ Input
    /\ lastOp' = Op("zoomOut", TRUE, momentumAnimationId # "null")
    /\ rafMomentum' = CancelMomentum.frames
    /\ momentumAnimationId' = CancelMomentum.id
    /\ velocity' = IF momentumAnimationId # "null" THEN Zero ELSE velocity
    /\ imageOffset' = IF newZoomLevel <= Unit THEN Zero
                      ELSE ConstrainImagePosition(imageOffset, zoomLevel, transformScale)
    /\ zoomLevel' = newZoomLevel
    /\ transformScale' = zoomLevel'
    /\ UNCHANGED <<isDragging, dragStart, lastDragPosition, animationFrameId, rafDrag>>

\* wheel event on .image-viewport; delta is 1.1 (deltaY < 0) or 0.9
WheelLevel(zoom, delta) == Max(MinZoom, Min(MaxZoom, RoundDiv(zoom * delta, Unit)))

Wheel(delta) ==
    LET newZoomLevel == WheelLevel(zoomLevel, delta) IN
    /\ page = "enhanced"
    /\ Input
    /\ lastOp' = Op("wheel", TRUE, momentumAnimationId # "null")
    /\ rafMomentum' = CancelMomentum.frames
    /\ momentumAnimationId' = CancelMomentum.id
    /\ velocity' = IF momentumAnimationId # "null" \/ newZoomLevel <= Unit
                   THEN Zero ELSE velocity
    /\ imageOffset' = IF newZoomLevel <= Unit THEN Zero
                      ELSE ConstrainImagePosition(imageOffset, zoomLevel, transformScale)
    /\ zoomLevel' = newZoomLevel
    /\ transformScale' = zoomLevel'
    /\ UNCHANGED <<isDragging, dragStart, lastDragPosition, animationFrameId, rafDrag>>

\* resetZoom(), which ends with centerImage()
ResetZoom ==
    /\ rafMomentum' = CancelMomentum.frames
    /\ momentumAnimationId' = CancelMomentum.id
    /\ zoomLevel' = Unit
    /\ imageOffset' = Zero
    /\ velocity' = Zero
    /\ transformScale' = CenterScale
    /\ UNCHANGED <<isDragging, dragStart, lastDragPosition, animationFrameId, rafDrag>>

\* click on #zoom-reset
ZoomReset ==
    /\ page = "enhanced"
    /\ Input
    /\ lastOp' = Op("reset", TRUE, momentumAnimationId # "null")
    /\ ResetZoom

\* the load event of #artwork-image: resetZoom(); centerImage()
ArtworkImageLoad ==
    /\ page = "enhanced"
    /\ imageLoadPending
    /\ imageLoadPending' = FALSE
    /\ lastOp' = Op("imageLoad", TRUE, momentumAnimationId # "null")
    /\ ResetZoom
    /\ UNCHANGED <<layoutVars, catalogVars, processorVars, scriptVars, galleryVars, page, currentImageIndex, inputsLeft>>

\* switchToImage(index): the reset is left to the load event of the new image
SwitchToImage(index) ==
    /\ page = "enhanced"
    /\ inputsLeft > 0
    /\ inputsLeft' = inputsLeft - 1
    /\ IF index >= 0 /\ index < Len(CurrentImages)
       THEN /\ currentImageIndex' = index
            /\ imageLoadPending' = TRUE
            /\ lastOp' = Op("switchToImage", TRUE, FALSE)
       ELSE /\ lastOp' = Op("switchToImage", FALSE, FALSE)
            /\ UNCHANGED <<currentImageIndex, imageLoadPending>>
    /\ UNCHANGED <<layoutVars, catalogVars, processorVars, scriptVars, galleryVars, page, zoomLevel, isDragging, dragStart, imageOffset,
                   velocity, lastDragPosition, animationFrameId, momentumAnimationId,
                   rafDrag, rafMomentum, transformScale>>

\* click on thumbnail number index
ThumbnailClick(index) == SwitchToImage(index)

\* click on #prev-image, or the ArrowLeft key
PrevImage ==
    SwitchToImage(IF currentImageIndex > 0 THEN currentImageIndex - 1
                  ELSE Len(CurrentImages) - 1)

\* click on #next-image, or the ArrowRight key
NextImage ==
    SwitchToImage(IF currentImageIndex < Len(CurrentImages) - 1
                  THEN currentImageIndex + 1 ELSE 0)

\* mousedown or single-finger touchstart on the image at pointer p
StartDragMomentum == CancelMomentum

StartDrag(p) ==
    /\ page = "enhanced"
    /\ Input
    /\ IF zoomLevel <= Unit
       THEN /\ lastOp' = Op("startDrag", FALSE, FALSE)
            /\ UNCHANGED <<zoomLevel, isDragging, dragStart, imageOffset, velocity,
                           lastDragPosition, animationFrameId, momentumAnimationId,
                           rafDrag, rafMomentum, transformScale>>
       ELSE /\ lastOp' = Op("startDrag", TRUE, momentumAnimationId # "null")
            /\ isDragging' = TRUE
            /\ dragStart' = Vec(p[1] * Unit - imageOffset.x, p[2] * Unit - imageOffset.y)
            /\ lastDragPosition' = Vec(p[1] * Unit, p[2] * Unit)
            /\ velocity' = Zero
            /\ rafMomentum' = StartDragMomentum.frames
            /\ momentumAnimationId' = StartDragMomentum.id
            /\ UNCHANGED <<zoomLevel, imageOffset, animationFrameId, rafDrag,
                           transformScale>>

\* mousemove or touchmove at pointer p, timeDelta ms after the last sample
DragVelocity(p, timeDelta) ==
    IF timeDelta > 0
    THEN Vec(RoundDiv((p[1] * Unit - lastDragPosition.x) * FrameInterval, timeDelta),
             RoundDiv((p[2] * Unit - lastDragPosition.y) * FrameInterval, timeDelta))
    ELSE velocity

Drag(p, timeDelta) ==
    /\ page = "enhanced"
    /\ Input
    /\ IF ~isDragging \/ zoomLevel <= Unit
       THEN /\ lastOp' = Op("drag", FALSE, FALSE)
            /\ UNCHANGED <<zoomLevel, isDragging, dragStart, imageOffset, velocity,
                           lastDragPosition, animationFrameId, momentumAnimationId,
                           rafDrag, rafMomentum, transformScale>>
       ELSE /\ lastOp' = Op("drag", TRUE, FALSE)
            /\ velocity' = DragVelocity(p, timeDelta)
            /\ imageOffset' = ConstrainImagePosition(
                                  Vec(p[1] * Unit - dragStart.x, p[2] * Unit - dragStart.y),
                                  zoomLevel, transformScale)
            /\ IF animationFrameId = "null"
               THEN animationFrameId' = "frame" /\ rafDrag' = rafDrag + 1
               ELSE UNCHANGED <<animationFrameId, rafDrag>>
            /\ lastDragPosition' = Vec(p[1] * Unit, p[2] * Unit)
            /\ UNCHANGED <<zoomLevel, isDragging, dragStart, momentumAnimationId,
                           rafMomentum, transformScale>>

\* the frame callback drag() requested: applyZoom(); animationFrameId = null
DragFrame ==
    /\ page = "enhanced"
    /\ rafDrag > 0
    /\ rafDrag' = rafDrag - 1
    /\ animationFrameId' = "null"
    /\ transformScale' = zoomLevel
    /\ lastOp' = Op("dragFrame", TRUE, FALSE)
    /\ UNCHANGED <<layoutVars, catalogVars, processorVars, scriptVars, galleryVars, page, imageLoadPending, currentImageIndex, inputsLeft, zoomLevel,
                   isDragging, dragStart, imageOffset, velocity, lastDragPosition,
                   momentumAnimationId, rafMomentum>>

\* mouseup, mouseleave, touchend or touchcancel
\* velocityMagnitude > 0.5 at the end of a drag
EndDragMomentumAtMinVelocity == MagnitudeAbove(velocity, MinVelocity)

EndDragMomentum == MagnitudeAbove(velocity, MomentumThreshold)

EndDrag ==
    /\ page = "enhanced"
    /\ Input
    /\ IF ~isDragging
       THEN /\ lastOp' = Op("endDrag", FALSE, FALSE)
            /\ UNCHANGED <<zoomLevel, isDragging, dragStart, imageOffset, velocity,
                           lastDragPosition, animationFrameId, momentumAnimationId,
                           rafDrag, rafMomentum, transformScale>>
       ELSE /\ lastOp' = Op("endDrag", TRUE, FALSE)
            /\ isDragging' = FALSE
            /\ IF EndDragMomentum
               THEN momentumAnimationId' = "frame" /\ rafMomentum' = rafMomentum + 1
               ELSE UNCHANGED <<momentumAnimationId, rafMomentum>>
            /\ UNCHANGED <<zoomLevel, dragStart, imageOffset, velocity,
                           lastDragPosition, animationFrameId, rafDrag, transformScale>>

\* a frame callback of applyMomentum: momentumStep
\* velocity.x *= friction; velocity.y *= friction
WithoutFriction(v) == v

ApplyFriction(v) ==
    Vec(RoundDiv(v.x * Friction, Unit), RoundDiv(v.y * Friction, Unit))

MomentumStep ==
    LET v == ApplyFriction(velocity) IN
    /\ page = "enhanced"
    /\ rafMomentum > 0
    /\ lastOp' = Op("momentumStep", TRUE, FALSE)
    /\ imageOffset' = ConstrainImagePosition(
                          Vec(imageOffset.x + v.x, imageOffset.y + v.y),
                          zoomLevel, transformScale)
    /\ transformScale' = zoomLevel
    /\ IF MagnitudeAbove(v, MinVelocity)
       THEN /\ velocity' = v
            /\ momentumAnimationId' = "frame"
            /\ rafMomentum' = rafMomentum
       ELSE /\ velocity' = Zero
            /\ momentumAnimationId' = "null"
            /\ rafMomentum' = rafMomentum - 1
    /\ UNCHANGED <<layoutVars, catalogVars, processorVars, scriptVars, galleryVars, page, imageLoadPending, currentImageIndex, inputsLeft, zoomLevel,
                   isDragging, dragStart, lastDragPosition, animationFrameId, rafDrag>>

NextEnhanced ==
    \/ ZoomIn
    \/ ZoomOut
    \/ \E delta \in {WheelInFactor, WheelOutFactor} : Wheel(delta)
    \/ ZoomReset
    \/ ArtworkImageLoad
    \/ \E p \in Pointers : StartDrag(p)
    \/ \E p \in Pointers, timeDelta \in TimeDeltas : Drag(p, timeDelta)
    \/ DragFrame
    \/ EndDrag
    \/ MomentumStep
    \/ \E index \in 0..(Len(CurrentImages) - 1) : ThumbnailClick(index)
    \/ PrevImage
    \/ NextImage

\* ---- galorio-static/js/artwork-detail.js (viewer without momentum) ----
StaticUntouched ==
    UNCHANGED <<velocity, lastDragPosition, animationFrameId, momentumAnimationId,
                rafDrag, rafMomentum>>

StaticZoomInLevel(zoom) == Min(RoundDiv(zoom * ZoomInFactor, Unit), MaxZoom)

StaticZoomIn ==
    /\ page = "static"
    /\ Input
    /\ lastOp' = Op("zoomIn", TRUE, FALSE)
    /\ zoomLevel' = StaticZoomInLevel(zoomLevel)
    /\ transformScale' = zoomLevel'
    /\ StaticUntouched
    /\ UNCHANGED <<isDragging, dragStart, imageOffset>>

StaticZoomOutLevel(zoom) == Max(RoundDiv(zoom * Unit, ZoomInFactor), MinZoom)

StaticZoomOut ==
    /\ page = "static"
    /\ Input
    /\ lastOp' = Op("zoomOut", TRUE, FALSE)
    /\ zoomLevel' = StaticZoomOutLevel(zoomLevel)
    /\ transformScale' = zoomLevel'
    /\ StaticUntouched
    /\ UNCHANGED <<isDragging, dragStart, imageOffset>>

StaticWheelLevel(zoom, delta) ==
    Max(MinZoom, Min(MaxZoom, RoundDiv(zoom * delta, Unit)))

StaticWheel(delta) ==
    /\ page = "static"
    /\ Input
    /\ lastOp' = Op("wheel", TRUE, FALSE)
    /\ zoomLevel' = StaticWheelLevel(zoomLevel, delta)
    /\ transformScale' = zoomLevel'
    /\ StaticUntouched
    /\ UNCHANGED <<isDragging, dragStart, imageOffset>>

\* click on #zoom-reset: resetZoom()
StaticZoomReset ==
    /\ page = "static"
    /\ Input
    /\ lastOp' = Op("reset", TRUE, FALSE)
    /\ zoomLevel' = Unit
    /\ imageOffset' = Zero
    /\ transformScale' = zoomLevel'
    /\ StaticUntouched
    /\ UNCHANGED <<isDragging, dragStart>>

\* mousedown or touchstart on the image at pointer p: startDrag(e)
StaticStartDrag(p) ==
    /\ page = "static"
    /\ Input
    /\ IF zoomLevel > Unit
       THEN /\ lastOp' = Op("startDrag", TRUE, FALSE)
            /\ isDragging' = TRUE
            /\ dragStart' = Vec(p[1] * Unit - imageOffset.x, p[2] * Unit - imageOffset.y)
       ELSE /\ lastOp' = Op("startDrag", FALSE, FALSE)
            /\ UNCHANGED <<isDragging, dragStart>>
    /\ StaticUntouched
    /\ UNCHANGED <<zoomLevel, imageOffset, transformScale>>

\* mousemove or touchmove at pointer p: drag(e)
StaticDrag(p) ==
    /\ page = "static"
    /\ Input
    /\ IF isDragging /\ zoomLevel > Unit
       THEN /\ lastOp' = Op("drag", TRUE, FALSE)
            /\ imageOffset' = Vec(p[1] * Unit - dragStart.x, p[2] * Unit - dragStart.y)
            /\ transformScale' = zoomLevel
       ELSE /\ lastOp' = Op("drag", FALSE, FALSE)
            /\ UNCHANGED <<imageOffset, transformScale>>
    /\ StaticUntouched
    /\ UNCHANGED <<zoomLevel, isDragging, dragStart>>

\* mouseup or touchend: endDrag()
StaticEndDrag ==
    /\ page = "static"
    /\ Input
    /\ lastOp' = Op("endDrag", TRUE, FALSE)
    /\ isDragging' = FALSE
    /\ StaticUntouched
    /\ UNCHANGED <<zoomLevel, dragStart, imageOffset, transformScale>>

\* the zoom controls and the panning of the viewer without momentum
NextStatic ==
    \/ StaticZoomIn
    \/ StaticZoomOut
    \/ \E delta \in {WheelInFactor, WheelOutFactor} : StaticWheel(delta)
    \/ StaticZoomReset
    \/ \E p \in Pointers : StaticStartDrag(p)
    \/ \E p \in Pointers : StaticDrag(p)
    \/ StaticEndDrag

\* the zoom controls of both viewers
NextZoom ==
    \/ ZoomIn
    \/ ZoomOut
    \/ \E delta \in {WheelInFactor, WheelOutFactor} : Wheel(delta)
    \/ ZoomReset
    \/ ArtworkImageLoad
    \/ StaticZoomIn
    \/ StaticZoomOut
    \/ \E delta \in {WheelInFactor, WheelOutFactor} : StaticWheel(delta)
    \/ StaticZoomReset

\* ------------------------------------------------------------------------
\* Strings: a JavaScript string is the sequence of its characters
\* ------------------------------------------------------------------------
Quote == "\""
Comma == ","
Newline == "\n"
CarriageReturn == "\r"
Whitespace == {" ", "\n", "\r", "\t"}

\* seq[i] for a JavaScript index i, which counts from 0
At(seq, i) == seq[i + 1]

\* String.prototype.trim: what lies between the first and the last character
\* that is not white space
Trim(s) ==
    LET kept == {k \in DOMAIN s : s[k] \notin Whitespace} IN
    IF kept = {} THEN <<>>
    ELSE SubSeq(s, CHOOSE k \in kept : \A m \in kept : k <= m,
                   CHOOSE k \in kept : \A m \in kept : m <= k)

\* the pieces of s between the positions in cuts, of which there is always
\* at least one
Pieces(s, cuts) ==
    LET edge(n) == IF n = 0 THEN 0
                   ELSE IF n > Cardinality(cuts) THEN Len(s) + 1
                   ELSE CHOOSE k \in cuts : Cardinality({m \in cuts : m < k}) = n - 1
    IN [n \in 1..(Cardinality(cuts) + 1) |-> SubSeq(s, edge(n - 1) + 1, edge(n) - 1)]

\* String.prototype.split(sep) for a separator of one character
SplitDroppingEmpty(s, sep) ==
    SelectSeq(Pieces(s, {k \in DOMAIN s : s[k] = sep}), LAMBDA piece : piece # <<>>)

Split(s, sep) == Pieces(s, {k \in DOMAIN s : s[k] = sep})

\* (s.match(/"/g) || []).length
QuoteCount(s) == Len(SelectSeq(s, LAMBDA c : c = Quote))

\* what a call returns, or the TypeError it throws
Returned(v) == [raised |-> FALSE, value |-> v]
TypeError == [raised |-> TRUE, value |-> <<>>]

\* ------------------------------------------------------------------------
\* galorio-static/scripts/build.js: parseCSV
\* ------------------------------------------------------------------------
\* inQuotes && line[i + 1] === '"'
NeverEscapedQuote(line, i, inQuotes) == FALSE

EscapedQuote(line, i, inQuotes) ==
    inQuotes /\ i + 1 < Len(line) /\ At(line, i + 1) = Quote

\* result.push(current.trim())
FieldValue(current) == Trim(current)

\* let result = [], current = '', inQuotes = false, i = 0
LineStart == [i |-> 0, result |-> <<>>, current |-> <<>>, inQuotes |-> FALSE]

\* one pass through the body of the while loop of parseCSVLine
ParseCSVLineStep(line, st) ==
    LET char == At(line, st.i) IN
    IF char = Quote
    THEN IF EscapedQuote(line, st.i, st.inQuotes)
         THEN [st EXCEPT !.i = @ + 2, !.current = Append(@, Quote)]
         ELSE [st EXCEPT !.i = @ + 1, !.inQuotes = ~@]
    ELSE IF char = Comma /\ ~st.inQuotes
         THEN [st EXCEPT !.i = @ + 1, !.result = Append(@, FieldValue(st.current)),
                         !.current = <<>>]
         ELSE [st EXCEPT !.i = @ + 1, !.current = Append(@, char)]

\* while (i < line.length), which makes at most n passes from st: the first
\* half of the passes, then the others
RECURSIVE ParseCSVLineLoop(_, _, _)
ParseCSVLineLoop(line, st, n) ==
    IF n = 0 \/ st.i >= Len(line) THEN st
    ELSE IF n = 1 THEN ParseCSVLineStep(line, st)
    ELSE LET half == ParseCSVLineLoop(line, st, n \div 2) IN
         IF half.i >= Len(line) THEN half
         ELSE ParseCSVLineLoop(line, half, n - n \div 2)

\* the loop, which ends within line.length passes, and the push after it
ParseCSVLine(line) ==
    LET st == ParseCSVLineLoop(line, LineStart, Len(line)) IN
    Append(st.result, FieldValue(st.current))

\* quoteCount % 2 !== 0
RecordNeverContinues(quoteCount) == FALSE

RecordContinues(quoteCount) == quoteCount % 2 # 0

\* the while loop of parseCSVRecord
RECURSIVE ExtendRecord(_, _, _, _)
ExtendRecord(lines, currentIndex, record, quoteCount) ==
    IF RecordContinues(quoteCount) /\ currentIndex + 1 < Len(lines)
    THEN ExtendRecord(lines, currentIndex + 1,
                      record \o <<Newline>> \o At(lines, currentIndex + 1),
                      quoteCount + QuoteCount(At(lines, currentIndex + 1)))
    ELSE [record |-> record, currentIndex |-> currentIndex]

ParseCSVRecord(lines, startIndex) ==
    LET extended == ExtendRecord(lines, startIndex, At(lines, startIndex),
                                 QuoteCount(At(lines, startIndex)))
    IN [values |-> ParseCSVLine(extended.record),
        nextLineIndex |-> extended.currentIndex + 1]

\* values[index] || ''
ValueOrEmpty(values, index) ==
    IF index < Len(values) THEN At(values, index) ELSE <<>>

\* headers.forEach((header, index) => { row[header] = values[index] || '' }):
\* a later header of the same name overwrites an earlier one
Row(headers, values) ==
    [header \in {At(headers, index) : index \in 0..(Len(headers) - 1)} |->
        LET last == CHOOSE index \in 0..(Len(headers) - 1) :
                        /\ At(headers, index) = header
                        /\ \A other \in 0..(Len(headers) - 1) :
                               At(headers, other) = header => other <= index
        IN ValueOrEmpty(values, last)]

\* values && values.length > 0 && values.some(v => v.trim())
KeepsEveryRecord(values) == TRUE

KeepsRecord(values) ==
    /\ Len(values) > 0
    /\ \E index \in 0..(Len(values) - 1) : Trim(At(values, index)) # <<>>

\* the while loop of parseCSV
RECURSIVE ParseCSVLoop(_, _, _, _)
ParseCSVLoop(lines, headers, i, data) ==
    IF i < Len(lines)
    THEN LET parsed == ParseCSVRecord(lines, i) IN
         ParseCSVLoop(lines, headers, parsed.nextLineIndex,
                      IF KeepsRecord(parsed.values)
                      THEN Append(data, Row(headers, parsed.values))
                      ELSE data)
    ELSE data

\* parseCSVLine(lines[0]) throws a TypeError if lines[0] is undefined
ParseCSV(csvText) ==
    LET lines == Split(Trim(csvText), Newline) IN
    IF Len(lines) = 0 THEN TypeError
    ELSE Returned(ParseCSVLoop(lines, ParseCSVLine(At(lines, 0)), 1, <<>>))

\* ------------------------------------------------------------------------
\* js/metadata.js: MetadataProcessor.parseCSV
\* ------------------------------------------------------------------------
\* if (currentLine.trim()) { lines.push(currentLine.trim()) }
PushLine(lines, currentLine) ==
    IF Trim(currentLine) # <<>> THEN Append(lines, Trim(currentLine)) ELSE lines

\* const lines = [], currentLine = '', inQuotes = false
MetadataLinesStart == [i |-> 0, lines |-> <<>>, currentLine |-> <<>>, inQuotes |-> FALSE]

\* one pass through the body of the first loop of parseCSV, which cuts the
\* text into lines
MetadataLinesStep(csvText, st) ==
    LET char == At(csvText, st.i)
        nextIs(c) == st.i + 1 < Len(csvText) /\ At(csvText, st.i + 1) = c
    IN
    IF char = Quote /\ ~st.inQuotes
    THEN [st EXCEPT !.i = @ + 1, !.inQuotes = TRUE]
    ELSE IF char = Quote /\ st.inQuotes
    THEN IF nextIs(Quote)
         THEN [st EXCEPT !.i = @ + 2, !.currentLine = Append(@, Quote)]
         ELSE [st EXCEPT !.i = @ + 1, !.inQuotes = FALSE]
    ELSE IF char = Newline /\ ~st.inQuotes
    THEN [st EXCEPT !.i = @ + 1, !.lines = PushLine(@, st.currentLine),
                    !.currentLine = <<>>]
    ELSE IF char = CarriageReturn /\ nextIs(Newline) /\ ~st.inQuotes
    THEN [st EXCEPT !.i = @ + 2, !.lines = PushLine(@, st.currentLine),
                    !.currentLine = <<>>]
    ELSE [st EXCEPT !.i = @ + 1, !.currentLine = Append(@, char)]

\* while (i < csvText.length), which makes at most n passes
\* from st: the first half of the passes, then the others
RECURSIVE MetadataLinesLoop(_, _, _)
MetadataLinesLoop(csvText, st, n) ==
    IF n = 0 \/ st.i >= Len(csvText) THEN st
    ELSE IF n = 1 THEN MetadataLinesStep(csvText, st)
    ELSE LET half == MetadataLinesLoop(csvText, st, n \div 2) IN
         IF half.i >= Len(csvText) THEN half
         ELSE MetadataLinesLoop(csvText, half, n - n \div 2)

\* the loop and the push of the last line
MetadataLines(csvText) ==
    LET st == MetadataLinesLoop(csvText, MetadataLinesStart, Len(csvText)) IN
    PushLine(st.lines, st.currentLine)

\* const fields = [], currentField = '', inQuotes = false
MetadataLineStart == [i |-> 0, fields |-> <<>>, currentField |-> <<>>, inQuotes |-> FALSE]

\* one pass through the body of the loop of parseCSVLine
MetadataParseCSVLineStep(line, st) ==
    LET char == At(line, st.i)
        nextIsQuote == st.i + 1 < Len(line) /\ At(line, st.i + 1) = Quote
    IN
    IF char = Quote /\ ~st.inQuotes
    THEN [st EXCEPT !.i = @ + 1, !.inQuotes = TRUE]
    ELSE IF char = Quote /\ st.inQuotes
    THEN IF nextIsQuote
         THEN [st EXCEPT !.i = @ + 2, !.currentField = Append(@, Quote)]
         ELSE [st EXCEPT !.i = @ + 1, !.inQuotes = FALSE]
    ELSE IF char = Comma /\ ~st.inQuotes
    THEN [st EXCEPT !.i = @ + 1, !.fields = Append(@, st.currentField),
                    !.currentField = <<>>]
    ELSE [st EXCEPT !.i = @ + 1, !.currentField = Append(@, char)]

RECURSIVE MetadataParseCSVLineLoop(_, _, _)
MetadataParseCSVLineLoop(line, st, n) ==
    IF n = 0 \/ st.i >= Len(line) THEN st
    ELSE IF n = 1 THEN MetadataParseCSVLineStep(line, st)
    ELSE LET half == MetadataParseCSVLineLoop(line, st, n \div 2) IN
         IF half.i >= Len(line) THEN half
         ELSE MetadataParseCSVLineLoop(line, half, n - n \div 2)

MetadataParseCSVLine(line) ==
    LET st == MetadataParseCSVLineLoop(line, MetadataLineStart, Len(line)) IN
    Append(st.fields, st.currentField)

\* row[header] = values[index] || '' for every header
MetadataRow(headers, values) ==
    [header \in {At(headers, index) : index \in 0..(Len(headers) - 1)} |->
        LET last == CHOOSE index \in 0..(Len(headers) - 1) :
                        /\ At(headers, index) = header
                        /\ \A other \in 0..(Len(headers) - 1) :
                               At(headers, other) = header => other <= index
        IN IF last < Len(values) THEN At(values, last) ELSE <<>>]

MetadataParseCSV(csvText) ==
    LET lines == MetadataLines(csvText) IN
    IF Len(lines) = 0 THEN Returned(<<>>)
    ELSE LET headers == MetadataParseCSVLine(At(lines, 0)) IN
         Returned([i \in 1..(Len(lines) - 1) |->
                      MetadataRow(headers, MetadataParseCSVLine(At(lines, i)))])

\* ------------------------------------------------------------------------
\* galorio-static/scripts/build.js: buildPortfolio
\* ------------------------------------------------------------------------
\* the value of a property that an object does not have
Absent == <<"undefined">>

\* row.key
Get(row, key) == IF key \in DOMAIN row THEN row[key] ELSE Absent

\* a string or undefined used as a condition
Truthy(v) == v # Absent /\ v # <<>>

\* v || default
OrElse(v, default) == IF Truthy(v) THEN v ELSE default

KeyTitle == <<"T", "i", "t", "l", "e">>
KeyID == <<"I", "D">>
KeyCollection == <<"C", "o", "l", "l", "e", "c", "t", "i", "o", "n">>
KeyPricing == <<"P", "r", "i", "c", "i", "n", "g">>
KeyDimensions == <<"D", "i", "m", "e", "n", "s", "i", "o", "n", "s">>
KeySize == <<"S", "i", "z", "e">>
KeyNotes == <<"N", "o", "t", "e", "s">>
KeyDescription == <<"E", "x", "t", "e", "n", "d", "e", "d", " ", "d", "e", "s", "c", "r", "i", "p", "t", "i", "o", "n">>
KeyFeatured == <<"x">>

UpperCase == <<"A", "B", "C", "D", "E", "F", "G", "H", "I", "J", "K", "L", "M", "N", "O", "P", "Q", "R", "S", "T", "U", "V", "W", "X", "Y", "Z">>
LowerCase == <<"a", "b", "c", "d", "e", "f", "g", "h", "i", "j", "k", "l", "m", "n", "o", "p", "q", "r", "s", "t", "u", "v", "w", "x", "y", "z">>
Digits == {"0", "1", "2", "3", "4", "5", "6", "7", "8", "9"}

Range(seq) == {seq[k] : k \in DOMAIN seq}

\* String.prototype.toLowerCase
ToLowerCase(s) ==
    [k \in DOMAIN s |->
        IF s[k] \in Range(UpperCase)
        THEN LowerCase[CHOOSE n \in DOMAIN UpperCase : UpperCase[n] = s[k]]
        ELSE s[k]]

\* generateId(input) without toLowerCase()
GenerateIdKeepingCase(input) ==
    IF ~Truthy(input) THEN <<"a", "r", "t", "w", "o", "r", "k", "-">> \o <<"Date.now()">>
    ELSE [k \in DOMAIN input |->
             IF input[k] \in Range(LowerCase) \cup Digits THEN input[k] ELSE "-"]

\* generateId(input): input.toLowerCase().replace(/[^a-z0-9]/g, '-')
GenerateId(input) ==
    IF ~Truthy(input) THEN <<"a", "r", "t", "w", "o", "r", "k", "-">> \o <<"Date.now()">>
    ELSE LET lower == ToLowerCase(input) IN
         [k \in DOMAIN lower |->
             IF lower[k] \in Range(LowerCase) \cup Digits THEN lower[k] ELSE "-"]

GenerateImageFilename(id, title) ==
    IF Truthy(id) THEN id \o <<".", "j", "p", "g">> ELSE GenerateId(title) \o <<".", "j", "p", "g">>

\* extractPrice(pricingText) without the search for an amount
ExtractPriceVerbatim(pricingText) ==
    IF ~Truthy(pricingText) THEN <<>> ELSE pricingText

\* extractPrice(pricingText): the first match of /\$[\d,]+/, or the text
ExtractPrice(pricingText) ==
    IF ~Truthy(pricingText) THEN <<>>
    ELSE LET amount(k) == pricingText[k] \in Digits \cup {Comma}
             starts == {k \in DOMAIN pricingText :
                           /\ pricingText[k] = "$"
                           /\ k < Len(pricingText)
                           /\ amount(k + 1)}
         IN IF starts = {} THEN pricingText
            ELSE LET first == CHOOSE k \in starts : \A m \in starts : k <= m
                     last == CHOOSE k \in (first + 1)..Len(pricingText) :
                                /\ \A m \in (first + 1)..k : amount(m)
                                /\ k = Len(pricingText) \/ ~amount(k + 1)
                 IN SubSeq(pricingText, first, last)

\* String.prototype.split(/\s+/)
RECURSIVE SplitWhitespaceFrom(_, _, _)
SplitWhitespaceFrom(s, i, current) ==
    IF i >= Len(s) THEN <<current>>
    ELSE IF At(s, i) \in Whitespace
         THEN IF i > 0 /\ At(s, i - 1) \in Whitespace
              THEN SplitWhitespaceFrom(s, i + 1, current)
              ELSE <<current>> \o SplitWhitespaceFrom(s, i + 1, <<>>)
         ELSE SplitWhitespaceFrom(s, i + 1, Append(current, At(s, i)))

\* String.prototype.includes
Includes(s, part) ==
    \E k \in 1..(Len(s) - Len(part) + 1) : SubSeq(s, k, k + Len(part) - 1) = part

StopWords == {<<"t", "h", "e">>, <<"a", "n", "d">>, <<"f", "o", "r">>, <<"w", "i", "t", "h">>}

Keywords ==
    <<<<"s", "p", "i", "r", "i", "t", "u", "a", "l">>,
      <<"a", "w", "a", "k", "e", "n", "i", "n", "g">>,
      <<"f", "r", "e", "e", "d", "o", "m">>,
      <<"p", "o", "w", "e", "r">>,
      <<"e", "n", "e", "r", "g", "y">>,
      <<"m", "o", "v", "e", "m", "e", "n", "t">>,
      <<"t", "r", "a", "n", "s", "i", "t", "i", "o", "n">>,
      <<"p", "a", "t", "t", "e", "r", "n", "s">>>>

\* [...new Set(tags)]
RECURSIVE Unique(_)
Unique(tags) ==
    IF tags = <<>> THEN <<>>
    ELSE LET front == Unique(SubSeq(tags, 1, Len(tags) - 1))
             tag == tags[Len(tags)]
         IN IF tag \in Range(front) THEN front ELSE Append(front, tag)

GenerateTags(title, description) ==
    LET titleWords ==
            IF Truthy(title)
            THEN SelectSeq(SplitWhitespaceFrom(ToLowerCase(title), 0, <<>>),
                           LAMBDA word : Len(word) > 3 /\ word \notin StopWords)
            ELSE <<>>
        found ==
            IF Truthy(description)
            THEN SelectSeq(Keywords,
                           LAMBDA keyword : Includes(ToLowerCase(description), keyword))
            ELSE <<>>
    IN Unique(titleWords \o found)

\* available: !!(row.Pricing && row.Pricing !== 'sold')
AvailableWhenPriced(pricing) == Truthy(pricing)

Available(pricing) == Truthy(pricing) /\ pricing # <<"s", "o", "l", "d">>

\* the artwork object built from a row of the inventory
Artwork(row) ==
    [id |-> OrElse(Get(row, KeyID), GenerateId(Get(row, KeyTitle))),
     title |-> Get(row, KeyTitle),
     collection |-> Get(row, KeyCollection),
     pricing |-> Get(row, KeyPricing),
     dimensions |-> OrElse(Get(row, KeyDimensions), Get(row, KeyDimensions)),
     size |-> Get(row, KeySize),
     notes |-> Get(row, KeyNotes),
     description |-> OrElse(Get(row, KeyDescription), <<>>),
     filename |-> GenerateImageFilename(Get(row, KeyID), Get(row, KeyTitle)),
     imageUrl |-> <<".", "/", "a", "r", "t", "w", "o", "r", "k", "s", "/">>
                  \o GenerateImageFilename(Get(row, KeyID), Get(row, KeyTitle)),
     available |-> Available(Get(row, KeyPricing)),
     price |-> ExtractPrice(Get(row, KeyPricing)),
     featured |-> Get(row, KeyFeatured) = <<"x">>,
     tags |-> GenerateTags(Get(row, KeyTitle), Get(row, KeyDescription))]

\* csvConfig.forEach(row => { if (row.Title) { ... artworks.push(artwork) } })
ProcessRows(csvConfig) ==
    LET titled == SelectSeq(csvConfig, LAMBDA row : Truthy(Get(row, KeyTitle)))
    IN [k \in DOMAIN titled |-> Artwork(titled[k])]

\* the order of the default collation on the characters of the inventory:
\* punctuation, digits, letters
Collation ==
    <<" ", "-", Comma, ".", "/", "$">> \o <<"0", "1", "2", "3", "4", "5", "6", "7", "8", "9">> \o LowerCase

CollationRank(c) ==
    IF c \in Range(Collation)
    THEN CHOOSE n \in DOMAIN Collation : Collation[n] = c
    ELSE 0

\* a.localeCompare(b) < 0, = 0 or > 0 as -1, 0 or 1: the letters decide, and
\* between strings that differ in case only the lower case comes first
RECURSIVE CompareRanks(_, _)
CompareRanks(a, b) ==
    IF a = <<>> /\ b = <<>> THEN 0
    ELSE IF a = <<>> THEN -1
    ELSE IF b = <<>> THEN 1
    ELSE IF CollationRank(Head(a)) < CollationRank(Head(b)) THEN -1
    ELSE IF CollationRank(Head(a)) > CollationRank(Head(b)) THEN 1
    ELSE CompareRanks(Tail(a), Tail(b))

RECURSIVE CompareCase(_, _)
CompareCase(a, b) ==
    IF a = <<>> \/ b = <<>> THEN 0
    ELSE IF Head(a) = Head(b) THEN CompareCase(Tail(a), Tail(b))
    ELSE IF Head(a) \in Range(LowerCase) THEN -1 ELSE 1

LocaleCompare(a, b) ==
    LET letters == CompareRanks(ToLowerCase(a), ToLowerCase(b)) IN
    IF letters # 0 THEN letters ELSE CompareCase(a, b)

\* the comparator of artworks.sort: no artwork has an order, so the titles
\* are compared
CompareArtworks(a, b) == LocaleCompare(OrElse(a.title, <<>>), OrElse(b.title, <<>>))

\* Array.prototype.sort, which is stable
RECURSIVE Insert(_, _)
Insert(sorted, artwork) ==
    IF sorted = <<>> THEN <<artwork>>
    ELSE IF CompareArtworks(sorted[Len(sorted)], artwork) <= 0
         THEN Append(sorted, artwork)
         ELSE Append(Insert(SubSeq(sorted, 1, Len(sorted) - 1), artwork),
                     sorted[Len(sorted)])

RECURSIVE Sort(_)
Sort(artworks) ==
    IF artworks = <<>> THEN <<>>
    ELSE Insert(Sort(SubSeq(artworks, 1, Len(artworks) - 1)), artworks[Len(artworks)])

\* artworks.forEach(artwork => { collections[artwork.collection || 'All']
\*                                   .push(artwork.id) })
RECURSIVE Collect(_)
Collect(artworks) ==
    IF artworks = <<>> THEN <<>>
    ELSE LET collections == Collect(SubSeq(artworks, 1, Len(artworks) - 1))
             artwork == artworks[Len(artworks)]
             collection == OrElse(artwork.collection, <<"A", "l", "l">>)
         IN IF collection \in DOMAIN collections
            THEN [collections EXCEPT ![collection] = Append(@, artwork.id)]
            ELSE collections @@ (collection :> <<artwork.id>>)

\* loadCSVConfig(): the rows of the inventory, or null when no file is read
Null == [isNull |-> TRUE, rows |-> <<>>]

LoadCSVConfig(file) ==
    IF file.exists /\ ~ParseCSV(file.text).raised
    THEN [isNull |-> FALSE, rows |-> ParseCSV(file.text).value]
    ELSE Null

EmptyPortfolio ==
    [artworks |-> <<>>,
     collections |-> <<>>,
     meta |-> [totalArtworks |-> 0, collectionsCount |-> 0, featuredCount |-> 0]]

\* buildPortfolio(); meta.generatedAt, the time of the build, is left out
BuildPortfolio(file) ==
    LET csvConfig == LoadCSVConfig(file) IN
    IF csvConfig.isNull \/ Len(csvConfig.rows) = 0 THEN EmptyPortfolio
    ELSE LET artworks == Sort(ProcessRows(csvConfig.rows))
             collections == Collect(artworks)
         IN [artworks |-> artworks,
             collections |-> collections,
             meta |-> [totalArtworks |-> Len(artworks),
                       collectionsCount |-> Cardinality(DOMAIN collections),
                       featuredCount |->
                           Len(SelectSeq(artworks, LAMBDA a : a.featured = TRUE)),
                       missingImages |-> 0]]

\* ------------------------------------------------------------------------
\* The inventory texts that are parsed
\* ------------------------------------------------------------------------
\* a table as its author wrote it: the header names and the cells of its rows
Table(headers, rows) == [known |-> TRUE, headers |-> headers, rows |-> rows]
NoTable == [known |-> FALSE, headers |-> <<>>, rows |-> <<>>]

RECURSIVE JoinWith(_, _)
JoinWith(parts, sep) ==
    IF parts = <<>> THEN <<>>
    ELSE IF Len(parts) = 1 THEN parts[1]
    ELSE parts[1] \o sep \o JoinWith(Tail(parts), sep)

\* a cell written as a quoted field: its quotes doubled, between two quotes
RECURSIVE DoubleQuotes(_)
DoubleQuotes(cell) ==
    IF cell = <<>> THEN <<>>
    ELSE IF Head(cell) = Quote THEN <<Quote, Quote>> \o DoubleQuotes(Tail(cell))
    ELSE <<Head(cell)>> \o DoubleQuotes(Tail(cell))

QuoteField(cell) == <<Quote>> \o DoubleQuotes(cell) \o <<Quote>>

\* the text of a table: the header line, then one record per row, every
\* cell of a row quoted
WriteCSV(t) ==
    JoinWith(<<JoinWith(t.headers, <<Comma>>)>>
             \o [r \in DOMAIN t.rows |->
                    JoinWith([k \in DOMAIN t.rows[r] |-> QuoteField(t.rows[r][k])],
                             <<Comma>>)],
             <<Newline>>)

File(text) == [exists |-> TRUE, text |-> text]
NoFile == [exists |-> FALSE, text |-> <<>>]

\* the characters of a cell, and the length of a cell
FieldChars == {"a", " ", Comma, Quote, Newline}
MaxFieldLen == 3
FieldContents == UNION {[1..n -> FieldChars] : n \in 0..MaxFieldLen}

\* a table of two columns and one row: any cell, then a plain one
TokenTables ==
    {Table(<<<<"h">>, <<"k">>>>, << <<cell, <<"b">>>> >>) : cell \in FieldContents}

\* "Black, Swan","ABS-0001","A ""great"" line<newline>second line"
ExampleFields ==
    <<<<"B", "l", "a", "c", "k", Comma, " ", "S", "w", "a", "n">>,
      <<"A", "B", "S", "-", "0", "0", "0", "1">>,
      <<"A", " ", Quote, "g", "r", "e", "a", "t", Quote, " ", "l", "i", "n", "e">> \o <<Newline>> \o <<"s", "e", "c", "o", "n", "d", " ", "l", "i", "n", "e">>>>

ExampleTable == Table(<<<<"t">>, <<"i">>, <<"n">>>>, <<ExampleFields>>)

\* texts given line by line, well formed or not
HeaderLines == {<<>>, <<"h">>, <<"h", Comma, "k">>}
PhysicalLines ==
    {<<" ">>, <<"a">>, <<"a", Comma, "b">>, <<"a", Comma, "b", Comma, "c">>, <<Comma>>, <<Quote, "a">>, <<"b", Quote>>}
MaxLines == 3
RawTexts ==
    {JoinWith(<<header>> \o lines, <<Newline>>) :
        header \in HeaderLines,
        lines \in UNION {[1..n -> PhysicalLines] : n \in 0..MaxLines}}

\* the inventories that are built: a row has a title of its own or none, and
\* a collection, a pricing and a featured marker
InventoryHeaders == <<KeyTitle, KeyCollection, KeyPricing, KeyFeatured>>
Titles == <<<<"C", "r", "o", "w">>, <<"B", "l", "a", "c", "k", " ", "S", "w", "a", "n">>, <<"a", "s", "h">>, <<"D", "u", "n", "e">>, <<"E", "l", "m">>>>
MaxRows == 3
RowKinds ==
    {<<>>,
     <<<<"B", "i", "r", "d", "s">>, <<"$", "1", Comma, "2", "0", "0">>, <<"x">>>>,
     <<<<"B", "i", "r", "d", "s">>, <<"s", "o", "l", "d">>, <<>>>>,
     <<<<>>, <<"$", "1", Comma, "2", "0", "0">>, <<>>>>,
     <<<<>>, <<"s", "o", "l", "d">>, <<"x">>>>,
     <<<<"T", "r", "e", "e", "s">>, <<>>, <<>>>>,
     <<<<"B", "i", "r", "d", "s">>, <<"$", "1", Comma, "2", "0", "0">>, <<"X">>>>}

InventoryRow(k, kind) ==
    IF kind = <<>> THEN <<<<>>, <<"B", "i", "r", "d", "s">>, <<"$", "1", Comma, "2", "0", "0">>, <<"x">>>>
    ELSE <<Titles[k]>> \o kind

Inventories ==
    {Table(InventoryHeaders, [k \in DOMAIN kinds |-> InventoryRow(k, kinds[k])]) :
        kinds \in UNION {[1..n -> RowKinds] : n \in 0..MaxRows}}

CatalogInit(t, file) ==
    /\ table = t
    /\ csvFile = file
    /\ called = {}
    /\ buildData = Returned(<<>>)
    /\ runtimeData = Returned(<<>>)
    /\ portfolioData = EmptyPortfolio

NoCatalog == CatalogInit(NoTable, NoFile)

\* parseCSV(csvText) of build.js on the text of the file
ParseCSVCall ==
    /\ csvFile.exists
    /\ "parseCSV" \notin called
    /\ called' = called \cup {"parseCSV"}
    /\ buildData' = ParseCSV(csvFile.text)
    /\ UNCHANGED <<layoutVars, viewerVars, processorVars, scriptVars, galleryVars, table, csvFile, runtimeData, portfolioData>>

\* MetadataProcessor.parseCSV(csvText) of js/metadata.js on the same text
MetadataParseCSVCall ==
    /\ csvFile.exists
    /\ "MetadataProcessor.parseCSV" \notin called
    /\ called' = called \cup {"MetadataProcessor.parseCSV"}
    /\ runtimeData' = MetadataParseCSV(csvFile.text)
    /\ UNCHANGED <<layoutVars, viewerVars, processorVars, scriptVars, galleryVars, table, csvFile, buildData, portfolioData>>

NextParse == ParseCSVCall \/ MetadataParseCSVCall

\* buildPortfolio() of build.js
BuildPortfolioCall ==
    /\ "buildPortfolio" \notin called
    /\ called' = called \cup {"buildPortfolio"}
    /\ portfolioData' = BuildPortfolio(csvFile)
    /\ UNCHANGED <<layoutVars, viewerVars, processorVars, scriptVars, galleryVars, table, csvFile, buildData, runtimeData>>

NextBuild == BuildPortfolioCall

\* ------------------------------------------------------------------------
\* js/metadata.js, js/gallery.js, part_001: normalizeCollectionName
\* ------------------------------------------------------------------------
Hyphen == "-"

\* the characters of s at the positions that keep holds of
AtPositions(s, keep(_)) ==
    LET kept == {k \in DOMAIN s : keep(k)} IN
    [n \in 1..Cardinality(kept) |->
        s[CHOOSE k \in kept : Cardinality({m \in kept : m < k}) = n - 1]]

\* .replace(/[^a-z0-9]/g, '-')
ReplaceOthers(s) ==
    [k \in DOMAIN s |-> IF s[k] \in Range(LowerCase) \cup Digits THEN s[k] ELSE Hyphen]

\* .replace(/--+/g, '-'): of a run of hyphens the first one is left
CollapseHyphens(s) ==
    AtPositions(s, LAMBDA k : ~(s[k] = Hyphen /\ k > 1 /\ s[k - 1] = Hyphen))

\* .replace(/^-|-$/g, ''): without a hyphen at the start and without a
\* hyphen, another one, at the end
StripHyphens(s) ==
    LET leading == s # <<>> /\ s[1] = Hyphen
        trailing == Len(s) > (IF leading THEN 1 ELSE 0) /\ s[Len(s)] = Hyphen
    IN SubSeq(s, IF leading THEN 2 ELSE 1, IF trailing THEN Len(s) - 1 ELSE Len(s))

Uncategorized == <<"u", "n", "c", "a", "t", "e", "g", "o", "r", "i", "z", "e", "d">>

NormalizeCollectionName(name) ==
    IF ~Truthy(name) THEN Uncategorized
    ELSE StripHyphens(CollapseHyphens(ReplaceOthers(ToLowerCase(name))))

\* the names that are normalized
NameChars == {"A", "b", "7", " ", Hyphen, "!"}
MaxNameLen == 3
Names == UNION {[1..n -> NameChars] : n \in 0..MaxNameLen} \cup {Absent}

\* a call of normalizeCollectionName(collectionName)
NormalizeCollectionNameCall ==
    /\ version = "slug"
    /\ ~normalized.called
    /\ normalized' = [called |-> TRUE, value |-> NormalizeCollectionName(collectionName)]
    /\ UNCHANGED <<layoutVars, viewerVars, catalogVars, scriptVars, galleryVars, version, step, collectionsCsv,
                   portfolioJson, thisCsvConfig, thisArtworks, thisCollections,
                   seeded, catalog, collectionName>>

NextSlug == NormalizeCollectionNameCall

\* ------------------------------------------------------------------------
\* js/metadata.js and part_001: MetadataProcessor
\* ------------------------------------------------------------------------
\* a collection of this.collections, a Map from id to collection
Collection(id, name, list) == [id |-> id, name |-> name, artworks |-> list]

\* new Map()
NoCollections == <<>>

\* map.set(id, value)
Put(map, id, value) ==
    [k \in DOMAIN map \cup {id} |-> IF k = id THEN value ELSE map[k]]

\* map.get(id).artworks.push(artwork)
PushArtwork(map, id, artwork) ==
    [map EXCEPT ![id].artworks = Append(@, artwork)]

IdFeatured == <<"f", "e", "a", "t", "u", "r", "e", "d">>
IdRecent == <<"r", "e", "c", "e", "n", "t">>
IdAll == <<"a", "l", "l">>

\* createDefaultCollections()
CreateDefaultCollections(map) ==
    Put(Put(Put(map,
                IdFeatured, Collection(IdFeatured, <<"F", "e", "a", "t", "u", "r", "e", "d", " ", "W", "o", "r", "k", "s">>, <<>>)),
            IdRecent, Collection(IdRecent, <<"R", "e", "c", "e", "n", "t", " ", "W", "o", "r", "k", "s">>, <<>>)),
        IdAll, Collection(IdAll, <<"A", "l", "l", " ", "W", "o", "r", "k", "s">>, <<>>))

\* collectionsConfig.forEach of loadCollectionsConfig: js/metadata.js takes
\* the rows that have an ID and a Title, part_001 takes every row
RECURSIVE SeedCollections(_, _, _)
SeedCollections(v, rows, map) ==
    IF rows = <<>> THEN map
    ELSE LET seededMap == SeedCollections(v, SubSeq(rows, 1, Len(rows) - 1), map)
             row == rows[Len(rows)]
         IN IF v = "part_001" \/ (Truthy(row.id) /\ Truthy(row.name))
            THEN Put(seededMap, row.id, Collection(row.id, row.name, <<>>))
            ELSE seededMap

\* the fields of an artwork that the collections are made from
Brief(id, title, collection, featured, available) ==
    [id |-> id, title |-> title, collection |-> collection,
     featured |-> featured, available |-> available]

\* parseCSV of part_001: lines cut at newlines, values cut at commas, trimmed
Part001ParseCSV(csvText) ==
    LET lines == Split(Trim(csvText), Newline)
        cut(line) == LET values == Split(line, Comma) IN
                     [k \in DOMAIN values |-> Trim(values[k])]
        headers == cut(lines[1])
    IN [i \in 1..(Len(lines) - 1) |-> Row(headers, cut(lines[i + 1]))]

\* the artwork that loadArtworkMetadata of part_001 makes of a row
Part001Artwork(row) ==
    Brief(OrElse(Get(row, KeyID), GenerateId(Get(row, KeyTitle))),
          Get(row, KeyTitle),
          Get(row, KeyCollection),
          Get(row, KeyFeatured) = <<"x">> \/ Get(row, <<"f", "e", "a", "t", "u", "r", "e", "d">>) = <<"t", "r", "u", "e">>,
          Truthy(Get(row, KeyPricing)) /\ Get(row, KeyFeatured) # <<"s", "o", "l", "d">>)

\* the artwork that the legacy branch of loadArtworkMetadata of
\* js/metadata.js makes of an artwork of portfolio.json
LegacyArtwork(artwork) ==
    Brief(artwork.id,
          OrElse(artwork.title, <<"U", "n", "t", "i", "t", "l", "e", "d">>),
          OrElse(artwork.collection, Uncategorized),
          artwork.featured,
          artwork.available # FALSE)

\* Object.values(data.collections).forEach of loadArtworkMetadata of
\* js/metadata.js: a collection that has artworks is stored and its artworks
\* are added to this.artworks
RECURSIVE LoadNested(_, _)
LoadNested(nested, state) ==
    IF nested = <<>> THEN state
    ELSE LET loaded == LoadNested(SubSeq(nested, 1, Len(nested) - 1), state)
             collection == nested[Len(nested)]
         IN IF "ids" \notin DOMAIN collection /\ Len(collection.artworks) > 0
            THEN [artworks |-> loaded.artworks \o collection.artworks,
                  collections |-> Put(loaded.collections, collection.id,
                                      Collection(collection.id, collection.name,
                                                 collection.artworks))]
            ELSE loaded

\* the artwork pushed to every collection there is
AssignToEveryCollection(v, map, artwork) ==
    [id \in DOMAIN map |-> [map[id] EXCEPT !.artworks = Append(@, artwork)]]

\* what processCollections does with one artwork
AssignArtwork(v, map, artwork) ==
    LET collectionId == IF v = "part_001"
                        THEN NormalizeCollectionName(artwork.collection)
                        ELSE artwork.collection
        own == IF (v = "part_001" \/ Truthy(collectionId)) /\ collectionId \in DOMAIN map
               THEN PushArtwork(map, collectionId, artwork)
               ELSE IF v = "part_001"
               THEN Put(map, collectionId,
                        Collection(collectionId,
                                   OrElse(artwork.collection, <<"U", "n", "t", "i", "t", "l", "e", "d", " ", "C", "o", "l", "l", "e", "c", "t", "i", "o", "n">>),
                                   <<artwork>>))
               ELSE IF Truthy(collectionId)
               THEN Put(map, collectionId,
                        Collection(collectionId, collectionId, <<artwork>>))
               ELSE map
        all == IF IdAll \in DOMAIN own THEN PushArtwork(own, IdAll, artwork) ELSE own
    IN IF artwork.featured /\ IdFeatured \in DOMAIN all
       THEN PushArtwork(all, IdFeatured, artwork)
       ELSE all

\* this.artworks.forEach of processCollections
RECURSIVE AssignArtworks(_, _, _)
AssignArtworks(v, map, list) ==
    IF list = <<>> THEN map
    ELSE AssignArtwork(v, AssignArtworks(v, map, SubSeq(list, 1, Len(list) - 1)),
                       list[Len(list)])

\* processCollections(): the artworks of the collections cleared, assigned
\* and sorted, and the collections that are left empty removed
ProcessedCollections(v, map, list) ==
    LET cleared == [id \in DOMAIN map |-> [map[id] EXCEPT !.artworks = <<>>]]
        assigned == AssignArtworks(v, cleared, list)
        sorted == [id \in DOMAIN assigned |->
                      [assigned[id] EXCEPT !.artworks = Sort(@)]]
    IN [id \in {k \in DOMAIN sorted : Len(sorted[k].artworks) # 0} |-> sorted[id]]

\* the columns of a row of collections.csv: js/metadata.js reads ID and
\* Title, part_001 reads id and collection_name
CollectionIdKey(v) == IF v = "part_001" THEN <<"i", "d">> ELSE KeyID

CollectionNameKey(v) ==
    IF v = "part_001"
    THEN <<"c", "o", "l", "l", "e", "c", "t", "i", "o", "n", "_", "n", "a", "m", "e">>
    ELSE KeyTitle

\* the row of collectionsConfig as SeedCollections reads it
SeedRow(v, row) ==
    [id |-> Get(row, CollectionIdKey(v)), name |-> Get(row, CollectionNameKey(v))]

\* loadCSVConfig(): the inventory, or else collections.csv, parsed
ProcessorLoadCSVConfig ==
    /\ step = "constructed"
    /\ step' = "csvConfig"
    /\ thisCsvConfig' =
          IF csvFile.exists
          THEN [isNull |-> FALSE,
                rows |-> IF version = "part_001"
                         THEN Part001ParseCSV(csvFile.text)
                         ELSE MetadataParseCSV(csvFile.text).value]
          ELSE IF collectionsCsv.ok
          THEN [isNull |-> FALSE, rows |-> collectionsCsv.rows]
          ELSE thisCsvConfig
    /\ UNCHANGED <<layoutVars, viewerVars, catalogVars, scriptVars, galleryVars, version, collectionsCsv,
                   portfolioJson, thisArtworks, thisCollections, seeded, catalog,
                   collectionName, normalized>>

\* loadCollectionsConfig(): the collections of collections.csv, or the
\* default ones
LoadCollectionsConfig ==
    /\ step = "csvConfig"
    /\ step' = "collectionsConfig"
    /\ thisCollections' =
          IF collectionsCsv.ok
          THEN SeedCollections(version,
                               [k \in DOMAIN collectionsCsv.rows |->
                                   SeedRow(version, collectionsCsv.rows[k])],
                               thisCollections)
          ELSE CreateDefaultCollections(thisCollections)
    /\ UNCHANGED <<layoutVars, viewerVars, catalogVars, scriptVars, galleryVars, version, collectionsCsv,
                   portfolioJson, thisCsvConfig, thisArtworks, seeded, catalog,
                   collectionName, normalized>>

\* loadArtworkMetadata() of js/metadata.js: the nested collections of
\* portfolio.json, or its artworks, or nothing when it cannot be fetched
MetadataLoadArtworkMetadata ==
    /\ version = "metadata.js"
    /\ step = "collectionsConfig"
    /\ step' = "artworkMetadata"
    /\ LET loaded ==
               IF portfolioJson.kind \in {"nested", "script", "built"}
               THEN LoadNested(portfolioJson.collections,
                               [artworks |-> thisArtworks, collections |-> thisCollections])
               ELSE IF portfolioJson.kind = "legacy"
               THEN [artworks |-> [k \in DOMAIN portfolioJson.artworks |->
                                      LegacyArtwork(portfolioJson.artworks[k])],
                     collections |-> thisCollections]
               ELSE [artworks |-> <<>>, collections |-> thisCollections]
       IN /\ thisArtworks' = loaded.artworks
          /\ thisCollections' = loaded.collections
    /\ UNCHANGED <<layoutVars, viewerVars, catalogVars, scriptVars, galleryVars, version, collectionsCsv,
                   portfolioJson, thisCsvConfig, seeded, catalog, collectionName,
                   normalized>>

\* loadArtworkMetadata() of part_001: the artworks of portfolio.json, or
\* else one artwork for every row of csvConfig
Part001LoadArtworkMetadata ==
    /\ version = "part_001"
    /\ step = "collectionsConfig"
    /\ step' = "artworkMetadata"
    /\ thisArtworks' =
          IF portfolioJson.kind # "missing" THEN portfolioJson.artworks
          ELSE IF thisCsvConfig.isNull \/ Len(thisCsvConfig.rows) = 0 THEN thisArtworks
          ELSE thisArtworks \o [k \in DOMAIN thisCsvConfig.rows |->
                                   Part001Artwork(thisCsvConfig.rows[k])]
    /\ UNCHANGED <<layoutVars, viewerVars, catalogVars, scriptVars, galleryVars, version, collectionsCsv,
                   portfolioJson, thisCsvConfig, thisCollections, seeded, catalog,
                   collectionName, normalized>>

\* processCollections(): initialize of part_001 calls it after the loads;
\* nothing in js/metadata.js calls it, a caller may once initialize is done
ProcessCollections ==
    /\ \/ version = "part_001" /\ step = "artworkMetadata"
       \/ version = "metadata.js" /\ step = "returned"
    /\ step' = "processed"
    /\ seeded' = DOMAIN thisCollections
    /\ thisCollections' = ProcessedCollections(version, thisCollections, thisArtworks)
    /\ thisArtworks' = IF version = "part_001" THEN Sort(thisArtworks) ELSE thisArtworks
    /\ UNCHANGED <<layoutVars, viewerVars, catalogVars, scriptVars, galleryVars, version, collectionsCsv,
                   portfolioJson, thisCsvConfig, catalog, collectionName, normalized>>

\* return { artworks: this.artworks, collections: this.collections }
InitializeReturn ==
    /\ \/ version = "part_001" /\ step = "processed"
       \/ version = "metadata.js" /\ step = "artworkMetadata"
    /\ step' = "returned"
    /\ catalog' = [returned |-> TRUE, artworks |-> thisArtworks,
                   collections |-> thisCollections]
    /\ UNCHANGED <<layoutVars, viewerVars, catalogVars, scriptVars, galleryVars, version, collectionsCsv,
                   portfolioJson, thisCsvConfig, thisArtworks, thisCollections,
                   seeded, collectionName, normalized>>

NextProcessor ==
    \/ ProcessorLoadCSVConfig
    \/ LoadCollectionsConfig
    \/ MetadataLoadArtworkMetadata
    \/ Part001LoadArtworkMetadata
    \/ ProcessCollections
    \/ InitializeReturn

\* ------------------------------------------------------------------------
\* scripts: the build script that writes the collections with their artworks
\* ------------------------------------------------------------------------
CsvOrder == <<"csv_order">>
Alphabetical == <<"alphabetical">>
Random == <<"random">>

\* loadBuildConfig(): the orders of build.config.json, alphabetical for one
\* that it does not name, csv_order when there is no such file
LoadBuildConfig(config) ==
    IF config.exists
    THEN [COLLECTION_ORDER |-> OrElse(config.collectionOrder, Alphabetical),
          ARTWORK_ORDER |-> OrElse(config.artworkOrder, Alphabetical)]
    ELSE [COLLECTION_ORDER |-> CsvOrder, ARTWORK_ORDER |-> CsvOrder]

\* csvRowOrder after csvConfig.forEach((row, index) => ...): the index of the
\* last titled row that has the key as its id or as its collection
CsvRowOrder(rows) ==
    LET keys(index) ==
            IF ~Truthy(Get(At(rows, index), KeyTitle)) THEN {}
            ELSE {Artwork(At(rows, index)).id}
                 \cup (IF Truthy(Get(At(rows, index), KeyCollection))
                       THEN {Get(At(rows, index), KeyCollection)} ELSE {})
        indexes == 0..(Len(rows) - 1)
    IN [key \in UNION {keys(index) : index \in indexes} |->
           CHOOSE index \in indexes :
              /\ key \in keys(index)
              /\ \A other \in indexes : key \in keys(other) => other <= index]

\* csvRowOrder.get(id) || 999
OrderOf(csvRowOrder, id) ==
    IF id \in DOMAIN csvRowOrder /\ csvRowOrder[id] # 0 THEN csvRowOrder[id] ELSE 999

\* the comparators of sortArtworks and of sortCollections; an order that is
\* not known sorts as alphabetical does
CompareBy(what, order, csvRowOrder, a, b) ==
    IF order = CsvOrder
    THEN OrderOf(csvRowOrder, a.id) - OrderOf(csvRowOrder, b.id)
    ELSE IF what = "artworks"
    THEN LocaleCompare(OrElse(a.title, <<>>), OrElse(b.title, <<>>))
    ELSE LocaleCompare(a.name, b.name)

RECURSIVE InsertBy(_, _, _, _, _)
InsertBy(what, order, csvRowOrder, sorted, item) ==
    IF sorted = <<>> THEN <<item>>
    ELSE IF CompareBy(what, order, csvRowOrder, sorted[Len(sorted)], item) <= 0
         THEN Append(sorted, item)
         ELSE Append(InsertBy(what, order, csvRowOrder,
                              SubSeq(sorted, 1, Len(sorted) - 1), item),
                     sorted[Len(sorted)])

RECURSIVE SortBy(_, _, _, _)
SortBy(what, order, csvRowOrder, array) ==
    IF array = <<>> THEN <<>>
    ELSE InsertBy(what, order, csvRowOrder,
                  SortBy(what, order, csvRowOrder, SubSeq(array, 1, Len(array) - 1)),
                  array[Len(array)])

\* shuffleArray(array): every order of the array
Shuffles(array) ==
    {[k \in DOMAIN array |-> array[at[k]]] :
        at \in {f \in [DOMAIN array -> DOMAIN array] :
                   \A m, n \in DOMAIN array : f[m] = f[n] => m = n}}

\* sortArtworks(artworksArray, csvRowOrder), sortCollections(collectionsArray,
\* csvRowOrder): the arrays that the call may return
Sorted(what, order, csvRowOrder, array) ==
    IF order = Random THEN Shuffles(array)
    ELSE {SortBy(what, order, csvRowOrder, array)}

\* loadCollectionsMetadata(): the rows of collections.csv that have an ID
LoadCollectionsMetadata(collectionsFile) ==
    IF ~collectionsFile.ok THEN <<>>
    ELSE SelectSeq([k \in DOMAIN collectionsFile.rows |->
                       [id |-> Get(collectionsFile.rows[k], KeyID),
                        name |-> OrElse(Get(collectionsFile.rows[k], KeyTitle),
                                        Get(collectionsFile.rows[k], KeyID))]],
                   LAMBDA collection : Truthy(collection.id))

\* collections.set(id, value) on the values of the Map in the order of
\* their insertion
SetCollection(values, value) ==
    IF \E k \in DOMAIN values : values[k].id = value.id
    THEN [k \in DOMAIN values |-> IF values[k].id = value.id THEN value ELSE values[k]]
    ELSE Append(values, value)

\* collectionsData.forEach(collectionInfo => collections.set(...))
RECURSIVE InitializeCollections(_)
InitializeCollections(collectionsData) ==
    IF collectionsData = <<>> THEN <<>>
    ELSE LET collectionInfo == collectionsData[Len(collectionsData)] IN
         SetCollection(InitializeCollections(SubSeq(collectionsData, 1,
                                                      Len(collectionsData) - 1)),
                       Collection(collectionInfo.id, collectionInfo.name, <<>>))

\* sortedArtworks.forEach(artwork => ...): the artwork pushed to the
\* collection it names, which is made if it is not there
RECURSIVE AddArtworks(_, _)
AddArtworks(values, sortedArtworks) ==
    IF sortedArtworks = <<>> THEN values
    ELSE LET added == AddArtworks(values, SubSeq(sortedArtworks, 1,
                                                 Len(sortedArtworks) - 1))
             artwork == sortedArtworks[Len(sortedArtworks)]
             collectionId == artwork.collection
         IN IF Truthy(collectionId) /\ \E k \in DOMAIN added : added[k].id = collectionId
            THEN [k \in DOMAIN added |->
                     IF added[k].id = collectionId
                     THEN [added[k] EXCEPT !.artworks = Append(@, artwork)]
                     ELSE added[k]]
            ELSE IF Truthy(collectionId)
            THEN Append(added, Collection(collectionId, collectionId, <<artwork>>))
            ELSE added

\* the portfolio of no inventory
EmptyScriptData ==
    [collections |-> <<>>,
     meta |-> [totalArtworks |-> 0, collectionsCount |-> 0, featuredCount |-> 0]]

\* the collections that have artworks, before they are sorted
CollectionsArray(collectionsFile, sortedArtworks) ==
    SelectSeq(AddArtworks(InitializeCollections(LoadCollectionsMetadata(collectionsFile)),
                          sortedArtworks),
              LAMBDA collection : Len(collection.artworks) > 0)

\* portfolioData; the collections are the values of collectionsObj in the
\* order of its keys; meta.generatedAt, the time of the build, is left out
ScriptPortfolio(sortedArtworks, sortedCollections) ==
    [collections |-> sortedCollections,
     meta |-> [totalArtworks |-> Len(sortedArtworks),
               collectionsCount |->
                   Cardinality({sortedCollections[k].id : k \in DOMAIN sortedCollections}),
               featuredCount |->
                   Len(SelectSeq(sortedArtworks, LAMBDA a : a.featured = TRUE)),
               missingImages |-> 0]]

\* buildPortfolio() of the build script: the portfolios that it may return
ScriptBuildPortfolio(file, config, collectionsFile) ==
    LET csvConfig == LoadCSVConfig(file)
        BUILD_CONFIG == LoadBuildConfig(config)
    IN IF csvConfig.isNull \/ Len(csvConfig.rows) = 0 THEN {EmptyScriptData}
       ELSE LET csvRowOrder == CsvRowOrder(csvConfig.rows) IN
            {ScriptPortfolio(sortedArtworks, sortedCollections) :
                <<sortedArtworks, sortedCollections>> \in
                   UNION {{<<artworks, collections>> :
                              collections \in Sorted("collections",
                                                     BUILD_CONFIG.COLLECTION_ORDER,
                                                     csvRowOrder,
                                                     CollectionsArray(collectionsFile,
                                                                      artworks))} :
                          artworks \in Sorted("artworks", BUILD_CONFIG.ARTWORK_ORDER,
                                              csvRowOrder,
                                              ProcessRows(csvConfig.rows))}}

\* main() of the build script: buildPortfolio()
ScriptBuildPortfolioCall ==
    /\ buildConfig.known
    /\ "scripts.buildPortfolio" \notin called
    /\ called' = called \cup {"scripts.buildPortfolio"}
    /\ scriptData' \in ScriptBuildPortfolio(csvFile, buildConfig, collectionsCsv)
    /\ UNCHANGED <<layoutVars, viewerVars, processorVars, galleryVars, table, csvFile, buildData,
                   runtimeData, portfolioData, buildConfig, pricingCell, price>>

NextSheet == BuildPortfolioCall \/ ScriptBuildPortfolioCall

\* a call of extractPrice(pricingText)
ExtractPriceCall ==
    /\ ~price.called
    /\ pricingCell.known
    /\ price' = [called |-> TRUE, value |-> ExtractPrice(pricingCell.text)]
    /\ UNCHANGED <<layoutVars, viewerVars, catalogVars, processorVars, galleryVars, buildConfig,
                   scriptData, pricingCell>>

NextPrice == ExtractPriceCall

\* ------------------------------------------------------------------------
\* The sheets, the configurations and the pricing texts of the build script
\* ------------------------------------------------------------------------
SheetHeaders == <<KeyTitle, KeyID, KeyCollection, KeyPricing, KeyFeatured>>

\* the rows of a sheet: titles and IDs that repeat, titles that end in
\* punctuation or hold two spaces, and a row without a title
MaxSheetRows == 2
SheetRows ==
    {<<<<>>, <<>>, <<"B", "i", "r", "d", "s">>, <<"$", "5">>, <<>>>>,
     <<<<"C", "r", "o", "w">>, <<"A", "1">>, <<"B", "i", "r", "d", "s">>, <<"$", "5">>, <<"x">>>>,
     <<<<"C", "r", "o", "w", "!">>, <<>>, <<>>, <<"$", "5">>, <<>>>>,
     <<<<"A", " ", " ", "b">>, <<>>, <<"T", "r", "e", "e", "s">>, <<>>, <<>>>>,
     <<<<"a", "s", "h">>, <<"A", "1">>, <<"T", "r", "e", "e", "s">>, <<"$", "5">>, <<>>>>,
     <<<<"B", "l", "a", "c", "k", " ", "S", "w", "a", "n">>, <<>>, <<"B", "i", "r", "d", "s">>, <<"s", "o", "l", "d">>, <<"x">>>>}

Sheets ==
    {Table(SheetHeaders, rows) : rows \in UNION {[1..n -> SheetRows] : n \in 0..MaxSheetRows}}

\* build.config.json: absent, or naming no order, or naming one for both
BuildConfigs ==
    {[known |-> TRUE, exists |-> FALSE, collectionOrder |-> Absent, artworkOrder |-> Absent],
     [known |-> TRUE, exists |-> TRUE, collectionOrder |-> Absent, artworkOrder |-> Absent]}
    \cup {[known |-> TRUE, exists |-> TRUE, collectionOrder |-> order, artworkOrder |-> order] :
             order \in {CsvOrder, Alphabetical, Random}}

\* collections.csv of the build script: absent, or Trees before Birds
SheetCollections ==
    {[ok |-> FALSE, rows |-> <<>>],
     [ok |-> TRUE,
      rows |-> <<(KeyID :> <<"T", "r", "e", "e", "s">>) @@ (KeyTitle :> <<"A", "r", "b", "o", "r">>),
                 (KeyID :> <<"B", "i", "r", "d", "s">>) @@ (KeyTitle :> <<>>)>>]}

\* the pricing texts of which a price is extracted
PricingChars == {"$", "1", Comma, "a"}
MaxPricingLen == 4
PricingTexts == UNION {[1..n -> PricingChars] : n \in 0..MaxPricingLen} \cup {Absent}

NoPrice ==
    /\ pricingCell = [known |-> FALSE, text |-> <<>>]
    /\ price = [called |-> FALSE, value |-> <<>>]

NoScript ==
    /\ buildConfig = [known |-> FALSE, exists |-> FALSE,
                      collectionOrder |-> Absent, artworkOrder |-> Absent]
    /\ scriptData = EmptyScriptData
    /\ NoPrice

\* ------------------------------------------------------------------------
\* The files that the processor loads
\* ------------------------------------------------------------------------
\* a cell as a sheet exports it: quoted only if it holds a comma, a quote or
\* a newline
ExportField(cell) ==
    IF Range(cell) \cap {Comma, Quote, Newline} # {} THEN QuoteField(cell) ELSE cell

ExportCSV(t) ==
    JoinWith(<<JoinWith(t.headers, <<Comma>>)>>
             \o [r \in DOMAIN t.rows |->
                    JoinWith([k \in DOMAIN t.rows[r] |-> ExportField(t.rows[r][k])],
                             <<Comma>>)],
             <<Newline>>)

MaxCatalogRows == 2
CatalogRowKinds ==
    {<<>>,
     <<<<"B", "i", "r", "d", "s">>, <<"$", "1", Comma, "2", "0", "0">>, <<"x">>>>,
     <<<<"B", "i", "r", "d", "s">>, <<"s", "o", "l", "d">>, <<>>>>,
     <<<<>>, <<"$", "1", "2">>, <<>>>>,
     <<<<"N", "e", "w", "!">>, <<>>, <<>>>>}

CatalogInventories ==
    {Table(InventoryHeaders, [k \in DOMAIN kinds |-> InventoryRow(k, kinds[k])]) :
        kinds \in UNION {[1..n -> CatalogRowKinds] : n \in 0..MaxCatalogRows}}

\* the artworks of the portfolio.json built from the table
BuiltArtworks(t) ==
    LET built == BuildPortfolio(File(ExportCSV(t))).artworks IN
    [k \in DOMAIN built |->
        Brief(built[k].id, built[k].title, built[k].collection, built[k].featured,
              built[k].available)]

\* the artworks under the collections they name, those that name none under
\* Misc, and a collection of no artworks
NestedCollections(list) ==
    LET under(artwork) == OrElse(artwork.collection, <<"M", "i", "s", "c">>)
        first == SelectSeq([k \in DOMAIN list |->
                               IF \E m \in 1..(k - 1) : under(list[m]) = under(list[k])
                               THEN <<>> ELSE under(list[k])],
                           LAMBDA id : id # <<>>)
    IN [k \in DOMAIN first |->
           Collection(first[k], first[k],
                      SelectSeq(list, LAMBDA artwork : under(artwork) = first[k]))]
       \o <<Collection(<<"T", "r", "e", "e", "s">>, <<"T", "r", "e", "e", "s">>, <<>>)>>

\* an array of ids as a value of the collections of portfolio.json: it has
\* no id, no name and no artworks
IdArray(ids) == [id |-> Absent, name |-> Absent, artworks |-> Absent, ids |-> ids]

\* the collections of the portfolio.json that build.js writes with the
\* artworks, in the order of their keys: for every collection the ids of its
\* artworks
BuiltCollections(list) ==
    LET named(k) == OrElse(list[k].collection, <<"A", "l", "l">>)
        first == SelectSeq([k \in DOMAIN list |->
                               IF \E m \in 1..(k - 1) : named(m) = named(k)
                               THEN <<>> ELSE named(k)],
                           LAMBDA c : c # <<>>)
        ids(c) == LET listed == SelectSeq(list, LAMBDA artwork :
                                    OrElse(artwork.collection, <<"A", "l", "l">>) = c)
                  IN [k \in DOMAIN listed |-> listed[k].id]
    IN [k \in DOMAIN first |-> IdArray(ids(first[k]))]

\* the collections of the portfolio.json that the build script writes of
\* the table when there is no build.config.json and no collections.csv
ScriptCollections(t) ==
    LET rows == LoadCSVConfig(File(ExportCSV(t))).rows
        csvRowOrder == CsvRowOrder(rows)
        none == [ok |-> FALSE, rows |-> <<>>]
        sortedArtworks == SortBy("artworks", CsvOrder, csvRowOrder, ProcessRows(rows))
        written == SortBy("collections", CsvOrder, csvRowOrder,
                          CollectionsArray(none, sortedArtworks))
        brief(list) == [k \in DOMAIN list |->
                           Brief(list[k].id, list[k].title, list[k].collection,
                                 list[k].featured, list[k].available)]
    IN [k \in DOMAIN written |->
           Collection(written[k].id, written[k].name, brief(written[k].artworks))]

\* data/portfolio.json: not served; with artworks only; with collections that
\* hold their artworks, made by hand or by the build script; as build.js
\* writes it, with artworks and with collections of ids
PortfolioJsons(t) ==
    {[kind |-> "missing", artworks |-> <<>>, collections |-> <<>>],
     [kind |-> "legacy", artworks |-> BuiltArtworks(t), collections |-> <<>>],
     [kind |-> "nested", artworks |-> <<>>,
      collections |-> NestedCollections(BuiltArtworks(t))],
     [kind |-> "script", artworks |-> <<>>, collections |-> ScriptCollections(t)],
     [kind |-> "built", artworks |-> BuiltArtworks(t), collections |-> BuiltCollections(BuiltArtworks(t))]}

\* a row of collections.csv for a collection of the name
CollectionsRow(v, name) ==
    (CollectionIdKey(v) :>
        (IF v = "part_001" \/ name = <<"A", "l", "l">>
         THEN NormalizeCollectionName(name) ELSE name))
    @@ (CollectionNameKey(v) :> name)

CollectionsCsvs(v) ==
    {[ok |-> FALSE, rows |-> <<>>]}
    \cup {[ok |-> TRUE, rows |-> [k \in DOMAIN names |-> CollectionsRow(v, names[k])]] :
            names \in {<<>>,
                       <<<<"B", "i", "r", "d", "s">>>>,
                       <<<<"B", "i", "r", "d", "s">>, <<"T", "r", "e", "e", "s">>>>,
                       <<<<"A", "l", "l">>, <<"B", "i", "r", "d", "s">>>>}}
    \cup {[ok |-> TRUE,
           rows |-> <<CollectionsRow(v, <<"B", "i", "r", "d", "s">>),
                      (CollectionIdKey(v) :> <<"x", "9">>) @@ (CollectionNameKey(v) :> <<>>)>>]}

ProcessorInit(v, t, file, collectionsFile, json) ==
    /\ version = v
    /\ step = "constructed"
    /\ table = t
    /\ csvFile = file
    /\ collectionsCsv = collectionsFile
    /\ portfolioJson = json
    /\ thisCsvConfig = Null
    /\ thisArtworks = <<>>
    /\ thisCollections = NoCollections
    /\ seeded = {}
    /\ catalog = [returned |-> FALSE, artworks |-> <<>>, collections |-> NoCollections]

NoSlug ==
    /\ collectionName = <<>>
    /\ normalized = [called |-> FALSE, value |-> <<>>]

NoProcessor ==
    /\ version = "none"
    /\ step = "none"
    /\ collectionsCsv = [ok |-> FALSE, rows |-> <<>>]
    /\ portfolioJson = [kind |-> "missing", artworks |-> <<>>, collections |-> <<>>]
    /\ thisCsvConfig = Null
    /\ thisArtworks = <<>>
    /\ thisCollections = NoCollections
    /\ seeded = {}
    /\ catalog = [returned |-> FALSE, artworks |-> <<>>, collections |-> NoCollections]
    /\ NoSlug

\* ------------------------------------------------------------------------
\* setupCollectionNavigation: the buttons and the swipes of a collection row
\* (widths, positions and clientX are in pixels)
\* ------------------------------------------------------------------------
scrollAmount == 250
threshold == 50

\* row.dataset.collectionId of the row
RowCollectionId == "birds"

\* artworksContainer.scrollWidth: the artworks do not fill the viewport, or do
ScrollWidths == {300, 1000}
\* container.clientWidth
ClientWidths == {400, 600}
\* e.touches[0].clientX
ClientXs == {0, 50, 120}

\* this.collectionScrollPositions.get(collectionId) || 0
SavedPosition(positions, collectionId) ==
    IF collectionId \in DOMAIN positions /\ positions[collectionId] # 0
    THEN positions[collectionId] ELSE 0

\* this.collectionScrollPositions.set(collectionId, position)
SetPosition(positions, collectionId, position) ==
    [id \in DOMAIN positions \cup {collectionId} |->
        IF id = collectionId THEN position ELSE positions[id]]

\* what updateButtons leaves in the buttons and the classes of the row
UpdateButtons(position, maxScroll) ==
    [prevDisabled |-> position <= 0,
     nextDisabled |-> position >= maxScroll,
     showLeftFade |-> position > 0,
     showRightFade |-> position < maxScroll]

\* a row as createCollectionRow builds it: no button disabled, no class
NewControls ==
    [prevDisabled |-> FALSE, nextDisabled |-> FALSE,
     showLeftFade |-> FALSE, showRightFade |-> FALSE]

PositionAtMost(newPosition, maxScroll) == Min(newPosition, maxScroll)

\* Math.max(0, Math.min(newPosition, maxScroll))
ClampPosition(newPosition, maxScroll) == Max(0, Min(newPosition, maxScroll))

\* scrollToPosition(newPosition)
ScrollToPosition(newPosition) ==
    LET maxScroll == scrollWidth - clientWidth
        position == ClampPosition(newPosition, maxScroll)
    IN /\ scrollPosition' = position
       /\ translateX' = position
       /\ collectionScrollPositions' =
              SetPosition(collectionScrollPositions, RowCollectionId, position)
       /\ rowControls' = UpdateButtons(position, maxScroll)

\* renderCollections builds the row anew: createCollectionRow makes new
\* elements and setupCollectionNavigation a new closure; the artworks of the
\* new row are laid out to some width
RenderCollections ==
    /\ scrollPosition' = SavedPosition(collectionScrollPositions, RowCollectionId)
    /\ startX' = 0
    /\ currentX' = 0
    /\ rowDragging' = FALSE
    /\ translateX' = 0
    /\ rowControls' = NewControls
    /\ scrollWidth' \in ScrollWidths
    /\ timerPending' = TRUE
    /\ navOp' = "render"
    /\ touchLast' = 0
    /\ swiped' = "none"
    /\ UNCHANGED <<layoutVars, viewerVars, catalogVars, processorVars, scriptVars,
                   renderVars,
                   collectionScrollPositions, clientWidth>>

\* setTimeout(updateButtons, 100) fires
UpdateButtonsTimeout ==
    /\ timerPending
    /\ timerPending' = FALSE
    /\ rowControls' = UpdateButtons(scrollPosition, scrollWidth - clientWidth)
    /\ navOp' = "timeout"
    /\ UNCHANGED <<layoutVars, viewerVars, catalogVars, processorVars, scriptVars,
                   renderVars,
                   collectionScrollPositions, scrollPosition, startX, currentX,
                   rowDragging, translateX, scrollWidth, clientWidth, touchLast,
                   swiped>>

\* the window is resized: the viewport of the row gets another width, and
\* the resize listener runs updateButtons
WindowResize ==
    /\ \E width \in ClientWidths \ {clientWidth} :
          /\ clientWidth' = width
          /\ rowControls' = UpdateButtons(scrollPosition, scrollWidth - width)
    /\ navOp' = "resize"
    /\ UNCHANGED <<layoutVars, viewerVars, catalogVars, processorVars, scriptVars,
                   renderVars,
                   collectionScrollPositions, scrollPosition, startX, currentX,
                   rowDragging, translateX, scrollWidth, timerPending, touchLast,
                   swiped>>

\* images load and setCollectionRowHeight sizes the artworks: the content of
\* the row gets another width; no handler of the navigation runs
ContentLaidOut ==
    /\ \E width \in ScrollWidths \ {scrollWidth} : scrollWidth' = width
    /\ navOp' = "layout"
    /\ UNCHANGED <<layoutVars, viewerVars, catalogVars, processorVars, scriptVars,
                   renderVars,
                   collectionScrollPositions, scrollPosition, startX, currentX,
                   rowDragging, translateX, rowControls, clientWidth,
                   timerPending, touchLast, swiped>>

\* a click of the user on prevBtn; a disabled button gets no click event
PrevBtnClick ==
    /\ ~rowControls.prevDisabled
    /\ ScrollToPosition(scrollPosition - scrollAmount)
    /\ navOp' = "prev"
    /\ UNCHANGED <<layoutVars, viewerVars, catalogVars, processorVars, scriptVars,
                   renderVars,
                   startX, currentX, rowDragging, scrollWidth, clientWidth,
                   timerPending, touchLast, swiped>>

\* a click of the user on nextBtn
NextBtnClick ==
    /\ ~rowControls.nextDisabled
    /\ ScrollToPosition(scrollPosition + scrollAmount)
    /\ navOp' = "next"
    /\ UNCHANGED <<layoutVars, viewerVars, catalogVars, processorVars, scriptVars,
                   renderVars,
                   startX, currentX, rowDragging, scrollWidth, clientWidth,
                   timerPending, touchLast, swiped>>

\* touchstart on the artworks container: a finger is put down
TouchStart ==
    /\ ~rowDragging
    /\ \E x \in ClientXs :
          /\ startX' = x
          /\ touchLast' = x
    /\ rowDragging' = TRUE
    /\ navOp' = "touchstart"
    /\ UNCHANGED <<layoutVars, viewerVars, catalogVars, processorVars, scriptVars,
                   renderVars,
                   collectionScrollPositions, scrollPosition, currentX,
                   translateX, rowControls, scrollWidth, clientWidth,
                   timerPending, swiped>>

\* touchmove: the finger that is down moves
TouchMove ==
    /\ rowDragging
    /\ \E x \in ClientXs \ {touchLast} :
          /\ currentX' = x
          /\ touchLast' = x
    /\ navOp' = "touchmove"
    /\ UNCHANGED <<layoutVars, viewerVars, catalogVars, processorVars, scriptVars,
                   renderVars,
                   collectionScrollPositions, scrollPosition, startX,
                   rowDragging, translateX, rowControls, scrollWidth,
                   clientWidth, timerPending, swiped>>

\* touchend: the finger is lifted; nextBtn.click() and prevBtn.click() do
\* nothing when the button is disabled
TouchEnd ==
    /\ rowDragging
    /\ rowDragging' = FALSE
    /\ navOp' = "touchend"
    /\ LET diffX == startX - currentX IN
       IF Abs(diffX) > threshold
       THEN IF diffX > 0
            THEN /\ swiped' = "next"
                 /\ IF rowControls.nextDisabled
                    THEN UNCHANGED <<collectionScrollPositions, scrollPosition,
                                     translateX, rowControls>>
                    ELSE ScrollToPosition(scrollPosition + scrollAmount)
            ELSE /\ swiped' = "prev"
                 /\ IF rowControls.prevDisabled
                    THEN UNCHANGED <<collectionScrollPositions, scrollPosition,
                                     translateX, rowControls>>
                    ELSE ScrollToPosition(scrollPosition - scrollAmount)
       ELSE /\ swiped' = "none"
            /\ UNCHANGED <<collectionScrollPositions, scrollPosition,
                           translateX, rowControls>>
    /\ UNCHANGED <<layoutVars, viewerVars, catalogVars, processorVars, scriptVars,
                   renderVars,
                   startX, currentX, scrollWidth, clientWidth, timerPending,
                   touchLast>>

NextNavigation ==
    \/ RenderCollections
    \/ UpdateButtonsTimeout
    \/ WindowResize
    \/ ContentLaidOut
    \/ PrevBtnClick
    \/ NextBtnClick
    \/ TouchStart
    \/ TouchMove
    \/ TouchEnd

\* the first renderCollections of the page has built the row
RowNavigationInit ==
    /\ collectionScrollPositions = <<>>
    /\ scrollPosition = 0
    /\ startX = 0
    /\ currentX = 0
    /\ rowDragging = FALSE
    /\ translateX = 0
    /\ rowControls = NewControls
    /\ scrollWidth \in ScrollWidths
    /\ clientWidth \in ClientWidths
    /\ timerPending = TRUE
    /\ navOp = "render"
    /\ touchLast = 0
    /\ swiped = "none"

\* no collection row is set up
NoNavigation ==
    /\ collectionScrollPositions = <<>>
    /\ scrollPosition = 0
    /\ startX = 0
    /\ currentX = 0
    /\ rowDragging = FALSE
    /\ translateX = 0
    /\ rowControls = NewControls
    /\ scrollWidth = 0
    /\ clientWidth = 0
    /\ timerPending = FALSE
    /\ navOp = "none"
    /\ touchLast = 0
    /\ swiped = "none"

\* ------------------------------------------------------------------------
\* renderCollections called again: the rows of one collection, one row for
\* every call; only the last row is in the container
\* ------------------------------------------------------------------------
\* calls of renderCollections in a session
MaxRenders == 2

\* what loading the images of the collection yields
RenderOutcomes ==
    { [ok |-> TRUE, w |-> 300, h |-> 200], [ok |-> TRUE, w |-> 200, h |-> 300],
      [ok |-> FALSE, w |-> 0, h |-> 0] }

\* a collection of one artwork or of two
RenderedCollections == UNION {[1..n -> RenderOutcomes] : n \in 1..2}

NoProbe == [row |-> 0, artwork |-> 0]

\* createCollectionRow(collection) for a collection of n artworks: the row,
\* its images and its promises
CreateCollectionRow(n) ==
    [imgSrc |-> [i \in 1..n |-> "original"],
     imgStatus |-> [i \in 1..n |-> "loading"],
     promise |-> [i \in 1..n |-> Pending],
     allValues |-> [i \in 1..n |-> Undefined],
     allRemaining |-> n,
     allState |-> "pending",
     rowHeight |-> Unset,
     elemWidth |-> [i \in 1..n |-> Unset],
     elemHeight |-> [i \in 1..n |-> Unset]]

\* resolve(v) of promise i of a row, and what Promise.all of that row makes
\* of it
SettleProbe(row, i, v) ==
    IF row.promise[i].state # "pending" THEN row
    ELSE [row EXCEPT !.promise[i] = Fulfilled(v),
                     !.allValues = PromiseAllCollect(@, i, v),
                     !.allRemaining = @ - 1,
                     !.allState = IF PromiseAllFulfilled(row.allRemaining - 1)
                                  THEN "fulfilled" ELSE @]

\* setCollectionRowHeight(row, imageDimensions): the styles it leaves in row
SizedRow(row, imageDimensions) ==
    LET clampedHeight == ClampedHeight(imageDimensions) IN
    [row EXCEPT !.rowHeight = clampedHeight,
                !.elemWidth = [i \in DOMAIN imageDimensions |->
                                  CalculatedWidth(clampedHeight, imageDimensions[i])],
                !.elemHeight = [i \in DOMAIN imageDimensions |-> clampedHeight]]

RowInContainer(g, inContainer) == inContainer

\* the row that the then-callback of Promise.all of row g sizes: the row of
\* its closure
RowOfProbe(g, inContainer) == g

\* promise i of row g is resolved with v
ProbeSettles(rows, g, i, v) ==
    LET after == SettleProbe(rows[g], i, v)
        joined == rows[g].allState = "pending" /\ after.allState = "fulfilled"
        target == RowOfProbe(g, displayed)
    IN IF joined
       THEN [rows EXCEPT ![g] = after,
                         ![target] = SizedRow(IF target = g THEN after ELSE @,
                                              after.allValues)]
       ELSE [rows EXCEPT ![g] = after]

\* the load event of image i of row g
RowImageLoad(g, i) ==
    LET row == renderedRows[g]
        placeholder == row.imgSrc[i] = "placeholder"
        naturalWidth == IF placeholder THEN PlaceholderWidth ELSE probeOutcomes[i].w
        naturalHeight == IF placeholder THEN PlaceholderHeight ELSE probeOutcomes[i].h
    IN
    /\ row.imgStatus[i] = "loading"
    /\ placeholder \/ probeOutcomes[i].ok
    /\ renderedRows' =
          ProbeSettles([renderedRows EXCEPT ![g].imgStatus[i] = "complete"],
                       g, i, Dimensions(naturalWidth, naturalHeight))
    /\ settled' = [row |-> g, artwork |-> i]
    /\ UNCHANGED <<layoutVars, viewerVars, catalogVars, processorVars, scriptVars,
                   navVars, probeOutcomes, displayed, imageFiles,
                   thumbnails>>

\* the error event of image i of row g
RowImageError(g, i) ==
    LET row == renderedRows[g] IN
    /\ row.imgStatus[i] = "loading"
    /\ row.imgSrc[i] = "original" /\ ~probeOutcomes[i].ok
    /\ renderedRows' =
          IF ImageHandlers.onerror = "resolveFallback"
          THEN ProbeSettles([renderedRows EXCEPT ![g].imgStatus[i] = "complete"],
                            g, i, FallbackDimensions)
          ELSE [renderedRows EXCEPT ![g].imgSrc[i] = "placeholder"]
    /\ settled' = [row |-> g, artwork |-> i]
    /\ UNCHANGED <<layoutVars, viewerVars, catalogVars, processorVars, scriptVars,
                   navVars, probeOutcomes, displayed, imageFiles,
                   thumbnails>>

\* renderCollections() once more (search): the container is emptied and a
\* new row is built of the same collection
RenderCollectionsAgain ==
    /\ Len(renderedRows) < MaxRenders
    /\ renderedRows' = Append(renderedRows, CreateCollectionRow(Len(probeOutcomes)))
    /\ displayed' = Len(renderedRows) + 1
    /\ settled' = NoProbe
    /\ UNCHANGED <<layoutVars, viewerVars, catalogVars, processorVars, scriptVars,
                   navVars, probeOutcomes, imageFiles, thumbnails>>

NextRender ==
    \/ \E g \in DOMAIN renderedRows, i \in DOMAIN probeOutcomes : RowImageLoad(g, i)
    \/ \E g \in DOMAIN renderedRows, i \in DOMAIN probeOutcomes : RowImageError(g, i)
    \/ RenderCollectionsAgain

\* the first renderCollections of the page has built the row
RenderInit ==
    /\ probeOutcomes \in RenderedCollections
    /\ renderedRows = <<CreateCollectionRow(Len(probeOutcomes))>>
    /\ displayed = 1
    /\ settled = NoProbe
    /\ imageFiles = [thumbnail |-> FALSE, original |-> FALSE]
    /\ thumbnails = <<>>

\* no collection is rendered
NoRender ==
    /\ probeOutcomes = <<>>
    /\ renderedRows = <<>>
    /\ displayed = 0
    /\ settled = NoProbe
    /\ imageFiles = [thumbnail |-> FALSE, original |-> FALSE]
    /\ thumbnails = <<>>

NoGallery == NoNavigation /\ NoRender

\* ------------------------------------------------------------------------
\* createCollectionArtwork and preloadOriginalImage: an artwork that is shown
\* by its thumbnail while the original loads in the background; one element
\* for every render
\* ------------------------------------------------------------------------
\* createCollectionArtwork(artwork): the image element and what has been done
\* to it
NewThumbnail ==
    [src |-> "thumbnail",        \* image.src
     usingThumbnail |-> TRUE,    \* image.dataset.usingThumbnail
     status |-> "loading",       \* the load of image.src
     sizedFor |-> "none",        \* the src the artwork element was sized for
     background |-> "none",      \* the load of originalImage
     preloads |-> 0,             \* history: calls of preloadOriginalImage
     startedFor |-> "none",      \* history: image.src when the load started
     swaps |-> 0,                \* history: swaps of image.src
     swappedOver |-> "none",     \* history: image.src the swap replaced
     swappedBy |-> 0,            \* history: the element whose load swapped it
     swappedAt |-> 0]            \* history: the element displayed at the swap

\* whether the file that image.src names loads
Loads(files, src) ==
    IF src = "thumbnail" THEN files.thumbnail
    ELSE IF src = "original" THEN files.original
    ELSE TRUE

\* preloadOriginalImage(thumbnailImage, artworkId), up to originalImage.src
PreloadOriginalImage(image) ==
    [image EXCEPT !.background = "loading",
                  !.preloads = @ + 1,
                  !.startedFor = image.src]

\* image.onload of element g
ThumbnailImageLoad(g) ==
    LET image == thumbnails[g]
        loaded == [image EXCEPT !.status = "complete", !.sizedFor = image.src]
    IN
    /\ image.status = "loading"
    /\ Loads(imageFiles, image.src)
    /\ thumbnails' = [thumbnails EXCEPT ![g] =
                         IF image.usingThumbnail
                         THEN PreloadOriginalImage(loaded) ELSE loaded]
    /\ UNCHANGED <<layoutVars, viewerVars, catalogVars, processorVars, scriptVars,
                   navVars, probeOutcomes, renderedRows, displayed, settled,
                   imageFiles>>

\* image.onerror of element g: the placeholder is shown
ThumbnailImageError(g) ==
    LET image == thumbnails[g] IN
    /\ image.status = "loading"
    /\ ~Loads(imageFiles, image.src)
    /\ thumbnails' = [thumbnails EXCEPT ![g].src = "placeholder",
                                        ![g].sizedFor = "fallback"]
    /\ UNCHANGED <<layoutVars, viewerVars, catalogVars, processorVars, scriptVars,
                   navVars, probeOutcomes, renderedRows, displayed, settled,
                   imageFiles>>

\* originalImage.onload of the load that element g started: the fade begins
\* and the swap is set for 150 ms later
OriginalImageLoad(g) ==
    /\ thumbnails[g].background = "loading"
    /\ imageFiles.original
    /\ thumbnails' = [thumbnails EXCEPT ![g].background = "loaded"]
    /\ UNCHANGED <<layoutVars, viewerVars, catalogVars, processorVars, scriptVars,
                   navVars, probeOutcomes, renderedRows, displayed, settled,
                   imageFiles>>

\* originalImage.onerror: the thumbnail stays
OriginalImageError(g) ==
    /\ thumbnails[g].background = "loading"
    /\ ~imageFiles.original
    /\ thumbnails' = [thumbnails EXCEPT ![g].background = "failed"]
    /\ UNCHANGED <<layoutVars, viewerVars, catalogVars, processorVars, scriptVars,
                   navVars, probeOutcomes, renderedRows, displayed, settled,
                   imageFiles>>

ImageInContainer(g, inContainer) == inContainer

\* the image whose src the timeout of the load of element g sets:
\* thumbnailImage of its closure
SwapTarget(g, inContainer) == g

\* the timeout of 150 ms of the load of element g: the swap
SwapTimeout(g) ==
    LET target == SwapTarget(g, displayed) IN
    /\ thumbnails[g].background = "loaded"
    /\ thumbnails' =
          [[thumbnails EXCEPT ![g].background = "done"]
              EXCEPT ![target].src = "original",
                     ![target].usingThumbnail = FALSE,
                     ![target].status = "loading",
                     ![target].swaps = @ + 1,
                     ![target].swappedOver = thumbnails[target].src,
                     ![target].swappedBy = g,
                     ![target].swappedAt = displayed]
    /\ UNCHANGED <<layoutVars, viewerVars, catalogVars, processorVars, scriptVars,
                   navVars, probeOutcomes, renderedRows, displayed, settled,
                   imageFiles>>

\* renderCollections() once more: the container is emptied and a new element
\* is built for the artwork
RenderThumbnailAgain ==
    /\ Len(thumbnails) < MaxRenders
    /\ thumbnails' = Append(thumbnails, NewThumbnail)
    /\ displayed' = Len(thumbnails) + 1
    /\ UNCHANGED <<layoutVars, viewerVars, catalogVars, processorVars, scriptVars,
                   navVars, probeOutcomes, renderedRows, settled, imageFiles>>

NextProgressive ==
    \/ \E g \in DOMAIN thumbnails : ThumbnailImageLoad(g)
    \/ \E g \in DOMAIN thumbnails : ThumbnailImageError(g)
    \/ \E g \in DOMAIN thumbnails : OriginalImageLoad(g)
    \/ \E g \in DOMAIN thumbnails : OriginalImageError(g)
    \/ \E g \in DOMAIN thumbnails : SwapTimeout(g)
    \/ RenderThumbnailAgain

\* the files of the artwork: whether the thumbnail and the original load
ImageFiles == [thumbnail : BOOLEAN, original : BOOLEAN]

\* the first render of the page has built the element
ProgressiveInit ==
    /\ imageFiles \in ImageFiles
    /\ thumbnails = <<NewThumbnail>>
    /\ displayed = 1
    /\ probeOutcomes = <<>>
    /\ renderedRows = <<>>
    /\ settled = NoProbe

\* ------------------------------------------------------------------------
\* Specifications
\* ------------------------------------------------------------------------
InitLayout == RowInit /\ ViewerInit("enhanced", 0) /\ NoCatalog /\ NoProcessor /\ NoScript /\ NoGallery
SpecLayout == InitLayout /\ [][NextLayout]_vars

InitViewer == NoRow /\ ViewerInit("enhanced", MaxInputs) /\ NoCatalog /\ NoProcessor /\ NoScript /\ NoGallery
SpecViewer == InitViewer /\ [][NextEnhanced]_vars

\* a session just long enough for a drag to be released into momentum; the
\* browser runs every animation frame that was requested and not cancelled
InitMomentum == NoRow /\ ViewerInit("enhanced", MaxMomentumInputs) /\ NoCatalog /\ NoProcessor /\ NoScript /\ NoGallery
SpecMomentumFair == InitMomentum /\ [][NextEnhanced]_vars /\ WF_vars(MomentumStep)

InitZoom ==
    /\ NoRow
    /\ \E p \in {"enhanced", "static"} : ViewerInit(p, MaxZoomInputs)
    /\ NoCatalog
    /\ NoProcessor /\ NoScript /\ NoGallery
SpecZoom == InitZoom /\ [][NextZoom]_vars

\* a session with the viewer of galorio-static
InitStatic ==
    /\ NoRow
    /\ ViewerInit("static", MaxStaticInputs)
    /\ NoCatalog
    /\ NoProcessor /\ NoScript /\ NoGallery
SpecStatic == InitStatic /\ [][NextStatic]_vars

\* both parsers on one inventory text
InitParse ==
    /\ NoRow
    /\ ViewerInit("enhanced", 0)
    /\ \/ \E t \in TokenTables \cup {ExampleTable} : CatalogInit(t, File(WriteCSV(t)))
       \/ \E text \in RawTexts : CatalogInit(NoTable, File(text))
    /\ NoProcessor /\ NoScript /\ NoGallery
SpecParse == InitParse /\ [][NextParse]_vars

\* one build, with or without an inventory file
InitBuild ==
    /\ NoRow
    /\ ViewerInit("enhanced", 0)
    /\ \/ \E t \in Inventories : CatalogInit(t, File(WriteCSV(t)))
       \/ CatalogInit(NoTable, NoFile)
    /\ NoProcessor /\ NoScript /\ NoGallery
SpecBuild == InitBuild /\ [][NextBuild]_vars

\* one call of normalizeCollectionName
InitSlug ==
    /\ NoRow
    /\ ViewerInit("enhanced", 0)
    /\ NoCatalog
    /\ version = "slug"
    /\ step = "none"
    /\ collectionsCsv = [ok |-> FALSE, rows |-> <<>>]
    /\ portfolioJson = [kind |-> "missing", artworks |-> <<>>, collections |-> <<>>]
    /\ thisCsvConfig = Null
    /\ thisArtworks = <<>>
    /\ thisCollections = NoCollections
    /\ seeded = {}
    /\ catalog = [returned |-> FALSE, artworks |-> <<>>, collections |-> NoCollections]
    /\ collectionName \in Names
    /\ normalized = [called |-> FALSE, value |-> <<>>]
    /\ NoScript /\ NoGallery
SpecSlug == InitSlug /\ [][NextSlug]_vars

\* one run of initialize() of a MetadataProcessor, and of processCollections
InitProcessor ==
    /\ NoRow
    /\ ViewerInit("enhanced", 0)
    /\ called = {}
    /\ buildData = Returned(<<>>)
    /\ runtimeData = Returned(<<>>)
    /\ portfolioData = EmptyPortfolio
    /\ NoSlug
    /\ NoScript /\ NoGallery
    /\ \E t \in CatalogInventories :
          \E json \in PortfolioJsons(t), file \in {File(ExportCSV(t)), NoFile},
             v \in {"metadata.js", "part_001"} :
             \E collectionsFile \in CollectionsCsvs(v) :
                ProcessorInit(v, t, file, collectionsFile, json)
SpecProcessor == InitProcessor /\ [][NextProcessor]_vars

\* one build of a sheet by each of the two build scripts
InitSheet ==
    /\ NoRow
    /\ ViewerInit("enhanced", 0)
    /\ \E t \in Sheets : CatalogInit(t, File(WriteCSV(t)))
    /\ version = "none"
    /\ step = "none"
    /\ collectionsCsv \in SheetCollections
    /\ portfolioJson = [kind |-> "missing", artworks |-> <<>>, collections |-> <<>>]
    /\ thisCsvConfig = Null
    /\ thisArtworks = <<>>
    /\ thisCollections = NoCollections
    /\ seeded = {}
    /\ catalog = [returned |-> FALSE, artworks |-> <<>>, collections |-> NoCollections]
    /\ NoSlug
    /\ buildConfig \in BuildConfigs
    /\ scriptData = EmptyScriptData
    /\ NoPrice
    /\ NoGallery
SpecSheet == InitSheet /\ [][NextSheet]_vars

\* one call of extractPrice
InitPrice ==
    /\ NoRow
    /\ ViewerInit("enhanced", 0)
    /\ NoCatalog
    /\ NoProcessor
    /\ buildConfig = [known |-> FALSE, exists |-> FALSE,
                      collectionOrder |-> Absent, artworkOrder |-> Absent]
    /\ scriptData = EmptyScriptData
    /\ \E text \in PricingTexts : pricingCell = [known |-> TRUE, text |-> text]
    /\ price = [called |-> FALSE, value |-> <<>>]
    /\ NoGallery
SpecPrice == InitPrice /\ [][NextPrice]_vars

\* the collection row of the gallery page and its user
InitNavigation ==
    /\ NoRow
    /\ ViewerInit("enhanced", 0)
    /\ NoCatalog
    /\ NoProcessor
    /\ NoScript
    /\ RowNavigationInit
    /\ NoRender
SpecNavigation == InitNavigation /\ [][NextNavigation]_vars

\* the rows of one collection that is rendered again and again
InitRender ==
    /\ NoRow
    /\ ViewerInit("enhanced", 0)
    /\ NoCatalog
    /\ NoProcessor
    /\ NoScript
    /\ NoNavigation
    /\ RenderInit
SpecRender == InitRender /\ [][NextRender]_vars

\* the elements of one artwork that is shown by its thumbnail first
InitProgressive ==
    /\ NoRow
    /\ ViewerInit("enhanced", 0)
    /\ NoCatalog
    /\ NoProcessor
    /\ NoScript
    /\ NoNavigation
    /\ ProgressiveInit
SpecProgressive == InitProgressive /\ [][NextProgressive]_vars

\* ------------------------------------------------------------------------
\* Properties of the collection row
\* ------------------------------------------------------------------------
Artworks == 1..Len(outcome)

Finalized == allState = "fulfilled"

\* what the probe of artwork i yields for the fixed outcome of its image: the
\* natural size of the image, or of the placeholder shown after a failure
ProbeValue(i) ==
    IF outcome[i].ok THEN Dimensions(outcome[i].w, outcome[i].h)
    ELSE Dimensions(PlaceholderWidth, PlaceholderHeight)

UsableHeight(h) ==
    h.k = "num" /\ FLeq(Whole(MinRowHeight), h) /\ FLeq(h, Whole(MaxRowHeight))

\* C1: the row height and the item sizes are set only once all N image probes
\* of the row have settled; no layout is ever derived from fewer than N results.
C1_LayoutOnlyAfterAllProbes ==
    (\/ rowHeight # Unset
     \/ \E i \in Artworks : elemWidth[i] # Unset \/ elemHeight[i] # Unset)
    => /\ \A i \in Artworks : promise[i].state = "fulfilled"
       /\ Len(arrival) = Len(outcome)

C1_Witness ==
    /\ Len(outcome) >= 2
    /\ rowHeight # Unset
    /\ \A i \in Artworks : elemWidth[i] # Unset

\* C2: for fixed per-image outcomes the finalized layout depends only on those
\* outcomes, artwork by artwork, and not on the order in which the probes
\* settled: element i gets the width of artwork i's own aspect ratio.
C2_OrderIndependentLayout ==
    Finalized =>
        LET dims == [i \in Artworks |-> ProbeValue(i)] IN
        /\ rowHeight = ClampedHeight(dims)
        /\ \A i \in Artworks :
              /\ elemWidth[i] = CalculatedWidth(rowHeight, dims[i])
              /\ elemHeight[i] = rowHeight

\* a row finalized after its probes settled out of artwork order, for
\* artworks of different aspect ratios
C2_Witness ==
    /\ Finalized
    /\ Len(outcome) >= 2
    /\ arrival[1] > arrival[2]
    /\ elemWidth[1] # elemWidth[2]
    /\ rowHeight.k = "num"

\* C3: every finalized row has rowHeight = clamp(max_i(250 / aspectRatio_i),
\* 150, 400), a number between 150 and 400 whatever the probes reported, and
\* every element has height rowHeight and width rowHeight * aspectRatio_i.
C3_RowHeightClamped ==
    Finalized =>
        /\ UsableHeight(rowHeight)
        /\ \A i \in Artworks :
              /\ elemHeight[i] = rowHeight
              /\ elemWidth[i] = FMul(rowHeight, promise[i].value.aspectRatio)

\* C4: a probe never rejects; it resolves with the natural size of the image
\* when the image loads and with exactly {300, 200, 1.5} when it fails.
C4_ProbeResolvesNaturalOrFallback ==
    \A i \in Artworks :
        promise[i].state = "fulfilled" =>
            promise[i].value =
                IF outcome[i].ok THEN Dimensions(outcome[i].w, outcome[i].h)
                ELSE FallbackDimensions

\* C5: when the images of some (or all) artworks of a row fail to load, the
\* row is still finalized for all N artworks, with a usable rowHeight between
\* 150 and 400.
C5_FailureKeepsRowUsable ==
    /\ (Finalized /\ \E i \in Artworks : ~outcome[i].ok)
          => /\ UsableHeight(rowHeight)
             /\ \A i \in Artworks : elemHeight[i] = rowHeight
    /\ (\A i \in Artworks : imgStatus[i] = "complete") => Finalized

\* ------------------------------------------------------------------------
\* Properties of the artwork detail viewer
\* ------------------------------------------------------------------------

\* C6: in the momentum-enabled viewer, after every operation the pan offset
\* is within the bounds constrainImagePosition computes for the zoom level
\* then in force: |imageOffset.x| <= maxOffsetX and |imageOffset.y| <= maxOffsetY.
C6_OffsetWithinBounds ==
    /\ Abs(imageOffset.x) <= MaxOffsetX(zoomLevel, transformScale)
    /\ Abs(imageOffset.y) <= MaxOffsetY(zoomLevel, transformScale)

\* C7: in the momentum-enabled viewer, whenever zoomLevel <= 1 the pan offset
\* and the velocity are both (0, 0).
C7_RestAtOrBelowOne ==
    zoomLevel <= Unit => imageOffset = Zero /\ velocity = Zero

\* C8: in both viewers zoomLevel stays within [0.5, 5] under zoom-in,
\* zoom-out, wheel and reset; a step that would leave the range ends at the
\* bound.
C8_ZoomWithinRange == MinZoom <= zoomLevel /\ zoomLevel <= MaxZoom

\* a zoom-in of the static viewer that would have passed 5 and stopped there
C8_Witness ==
    /\ page = "static"
    /\ zoomLevel = MaxZoom
    /\ lastOp.name = "zoomIn"

\* C9: an accepted drag start leaves no momentum frame pending, and while
\* isDragging is true no momentum frame is pending, so no momentum tick can
\* write imageOffset or velocity during a drag.
C9_SingleWriter ==
    /\ isDragging => rafMomentum = 0 /\ momentumAnimationId = "null"
    /\ (lastOp.name = "startDrag" /\ lastOp.accepted)
          => isDragging /\ rafMomentum = 0

\* a drag start that cancelled a pending momentum frame
C9_Witness ==
    /\ lastOp = Op("startDrag", TRUE, TRUE)
    /\ isDragging

\* C10: the frame requested by drag() and a momentum frame are never pending
\* together, and at most one momentum frame is pending.
C10_SingleAnimation ==
    /\ ~(rafDrag > 0 /\ rafMomentum > 0)
    /\ rafMomentum <= 1

\* the state of the viewer that a pointer or zoom handler can write
ViewerState ==
    <<zoomLevel, isDragging, dragStart, imageOffset, velocity, lastDragPosition,
      animationFrameId, momentumAnimationId, rafDrag, rafMomentum, transformScale>>

\* the step is the handling of a drag end
EndDragStep == lastOp'.name = "endDrag" /\ inputsLeft' = inputsLeft - 1

\* C11: a drag end while dragging leaves a momentum frame pending iff
\* sqrt(vx^2 + vy^2) > 0.5, and otherwise leaves the viewer idle (not
\* dragging, no momentum frame pending); a drag end while not dragging
\* changes nothing.
C11_DragEndEntersMomentumIffFast ==
    [][EndDragStep =>
         IF isDragging
         THEN /\ ~isDragging'
              /\ IF velocity.x * velocity.x + velocity.y * velocity.y
                        > (Unit \div 2) * (Unit \div 2)
                 THEN rafMomentum' = 1 /\ momentumAnimationId' = "frame"
                 ELSE rafMomentum' = 0 /\ momentumAnimationId' = "null"
         ELSE UNCHANGED ViewerState]_vars

\* a drag released at a speed between 0.1 and 0.5 per frame: no momentum
C11_Witness ==
    /\ lastOp = Op("endDrag", TRUE, FALSE)
    /\ velocity # Zero
    /\ velocity.x * velocity.x + velocity.y * velocity.y <= (Unit \div 2) * (Unit \div 2)
    /\ velocity.x * velocity.x + velocity.y * velocity.y > (Unit \div 10) * (Unit \div 10)
    /\ rafMomentum = 0
    /\ ~isDragging

\* the step is a momentum tick
MomentumTick == lastOp'.name = "momentumStep"

\* C12: each momentum tick multiplies the velocity by 0.92 and adds it to the
\* offset, which is clamped again; momentum that was started ends after
\* finitely many ticks, when the speed is no longer above 0.1, with velocity
\* (0, 0) and no frame pending; from then on imageOffset does not change
\* unless there is further input.
C12_MomentumTerminates ==
    /\ [][MomentumTick =>
            LET v == Vec(RoundDiv(velocity.x * 92, 100), RoundDiv(velocity.y * 92, 100))
                fast == v.x * v.x + v.y * v.y > (Unit \div 10) * (Unit \div 10)
            IN /\ imageOffset' = ConstrainImagePosition(
                                     Vec(imageOffset.x + v.x, imageOffset.y + v.y),
                                     zoomLevel, transformScale)
               /\ velocity' = IF fast THEN v ELSE Zero
               /\ rafMomentum' = IF fast THEN 1 ELSE 0
               /\ momentumAnimationId' = IF fast THEN "frame" ELSE "null"]_vars
    /\ (rafMomentum > 0)
          ~> (rafMomentum = 0 /\ momentumAnimationId = "null" /\ velocity = Zero)
    /\ [][(rafMomentum = 0 /\ inputsLeft' = inputsLeft
              /\ imageLoadPending' = imageLoadPending)
            => imageOffset' = imageOffset]_vars

\* momentum that ran to its end and moved the image
C12_Witness ==
    /\ lastOp.name = "momentumStep"
    /\ rafMomentum = 0
    /\ momentumAnimationId = "null"
    /\ velocity = Zero
    /\ imageOffset # Zero

\* C13: after switchToImage with a valid index, and after an explicit reset,
\* no momentum frame is pending, zoomLevel is 1 and imageOffset is (0, 0),
\* whether or not the new image has loaded.
C13_SwitchOrResetCancelsAndSnaps ==
    (lastOp.accepted /\ lastOp.name \in {"switchToImage", "reset"})
       => /\ rafMomentum = 0
          /\ momentumAnimationId = "null"
          /\ zoomLevel = Unit
          /\ imageOffset = Zero

\* ------------------------------------------------------------------------
\* Properties of the inventory parsers
\* ------------------------------------------------------------------------
ParsedAtBuild == "parseCSV" \in called

ParsedAtRuntime == "MetadataProcessor.parseCSV" \in called

\* the physical lines of the text of the file
Lines == Pieces(Trim(csvFile.text),
                {k \in DOMAIN Trim(csvFile.text) : Trim(csvFile.text)[k] = Newline})

\* the record that maps header k to the value of cell(k)
Zip(headers, cell(_)) ==
    [header \in Range(headers) |->
        cell(CHOOSE k \in DOMAIN headers : headers[k] = header)]

DistinctNames(headers) ==
    \A k, m \in DOMAIN headers : headers[k] = headers[m] => k = m

\* the cells of the only row of the table
Cell(k) == table.rows[1][k]

TrimmedCell(k) == Trim(Cell(k))

\* C14, read to the letter: the fields of a quoted record are the literal
\* contents of its cells, white space at their ends included: quotes
\* toggle, a doubled quote is one quote, and commas and newlines inside
\* quotes are content.
C14_FieldsAreLiteralContents ==
    (ParsedAtBuild /\ table.known)
       => /\ ParseCSVRecord(Lines, 1) =
                [values |-> [k \in DOMAIN table.rows[1] |-> Cell(k)],
                 nextLineIndex |-> Len(Lines)]
          /\ buildData = Returned(<<Zip(table.headers, Cell)>>)

\* C14: the fields of a quoted record are the contents of its cells without
\* the white space at their ends: quotes toggle, a doubled quote is one
\* quote, and commas and newlines inside quotes are content of the field and
\* end neither the field nor the record; the record of the example yields
\* exactly its three fields.
C14_FieldsAreTrimmedContents ==
    (ParsedAtBuild /\ table.known)
       => /\ ParseCSVRecord(Lines, 1) =
                [values |-> [k \in DOMAIN table.rows[1] |-> TrimmedCell(k)],
                 nextLineIndex |-> Len(Lines)]
          /\ buildData = Returned(<<Zip(table.headers, TrimmedCell)>>)
          /\ table = ExampleTable
                => ParseCSVRecord(Lines, 1).values = ExampleFields

\* the record of the example was parsed into its three fields
C14_Witness ==
    /\ ParsedAtBuild
    /\ table = ExampleTable
    /\ Len(Lines) = 3
    /\ buildData.value[1][<<"t">>] = ExampleFields[1]
    /\ buildData.value[1][<<"n">>] = ExampleFields[3]
    /\ Comma \in Range(buildData.value[1][<<"t">>])
    /\ Quote \in Range(buildData.value[1][<<"n">>])
    /\ Newline \in Range(buildData.value[1][<<"n">>])

\* C15: the runtime parser gives every header the literal content of its
\* cell, for the rows whose cells have no white space at their ends: a comma
\* inside quotes stays in its field, a doubled quote is one quote, and the
\* columns that follow stay aligned to their headers.
C15_RuntimeFieldsAreLiteralContents ==
    (/\ ParsedAtRuntime
     /\ table.known
     /\ \A k \in DOMAIN table.rows[1] : TrimmedCell(k) = Cell(k))
       => runtimeData = Returned(<<Zip(table.headers, Cell)>>)

\* lines i..j as one text
RecordText(lines, i, j) == JoinWith(SubSeq(lines, i + 1, j + 1), <<Newline>>)

\* the number of quote characters of lines i..j
QuotesOver(lines, i, j) == QuoteCount(RecordText(lines, i, j))

\* the first line from i on at which the quotes since line i are even in
\* number, or the last line
RecordEnd(lines, i) ==
    LET even == {j \in i..(Len(lines) - 1) : QuotesOver(lines, i, j) % 2 = 0} IN
    IF even = {} THEN Len(lines) - 1
    ELSE CHOOSE j \in even : \A m \in even : j <= m

\* the line at which the scan of parseCSV goes on after the record of line i
NextRecord(lines, i) == ParseCSVRecord(lines, i).nextLineIndex

\* the lines at which the scan of parseCSV starts a record: line 1, and the
\* line after every record
RecordStarts(lines) ==
    LET from == 1..(Len(lines) - 1)
        next == [i \in from |-> NextRecord(lines, i)]
        closed(starts) ==
            /\ from # {} => 1 \in starts
            /\ \A i \in starts : next[i] \in from => next[i] \in starts
    IN CHOOSE starts \in SUBSET from :
          /\ closed(starts)
          /\ \A i \in starts : i = 1 \/ \E earlier \in starts : next[earlier] = i

\* C16: the record that starts at line i extends through the first line j at
\* which the quotes of lines i..j are even in number, or through the last
\* line; the next record starts at j + 1, the scan always advances, and every
\* line after the header belongs to exactly one record of the scan.
C16_RecordExtendsToEvenQuotes ==
    ParsedAtBuild
       => LET lines == Lines
              starts == RecordStarts(lines)
              next == [i \in 1..(Len(lines) - 1) |-> NextRecord(lines, i)]
          IN /\ \A i \in 1..(Len(lines) - 1) :
                   /\ next[i] = RecordEnd(lines, i) + 1
                   /\ next[i] > i
                   /\ next[i] <= Len(lines)
                   /\ ParseCSVRecord(lines, i).values =
                          ParseCSVLine(RecordText(lines, i, RecordEnd(lines, i)))
             /\ \A line \in 1..(Len(lines) - 1) :
                   Cardinality({i \in starts : i <= line /\ line < next[i]}) = 1
             /\ ~buildData.raised
             /\ Len(buildData.value) <= Cardinality(starts)

\* a record of several lines that ends where its quotes are even again, and
\* a record after it
C16_Witness ==
    /\ ParsedAtBuild
    /\ \E i \in RecordStarts(Lines) :
          /\ RecordEnd(Lines, i) > i
          /\ QuotesOver(Lines, i, RecordEnd(Lines, i)) % 2 = 0
          /\ RecordEnd(Lines, i) + 1 \in RecordStarts(Lines)
    /\ Len(buildData.value) = 2

\* the values of the records of the scan, in the order of their lines
RecordValues(lines) ==
    LET starts == RecordStarts(lines) IN
    [n \in 1..Cardinality(starts) |->
        ParseCSVRecord(lines, CHOOSE i \in starts :
                                  Cardinality({j \in starts : j < i}) = n - 1).values]

Blank(values) == \A k \in DOMAIN values : Trim(values[k]) = <<>>

\* the k-th value, or the empty string
ValueAt(values, k) == IF k <= Len(values) THEN values[k] ELSE <<>>

\* the records that parseCSV is to emit for the lines
EmittedRecords(lines) ==
    LET headers == ParseCSVLine(lines[1])
        kept == SelectSeq(RecordValues(lines), LAMBDA values : ~Blank(values))
    IN [n \in DOMAIN kept |->
           [header \in Range(headers) |->
               ValueAt(kept[n], CHOOSE k \in DOMAIN headers : headers[k] = header)]]

LastRecordOf(lines) ==
    LET starts == RecordStarts(lines)
        last == CHOOSE i \in starts : \A j \in starts : j <= i
    IN RecordText(lines, last, Len(lines) - 1)

LastRecord == LastRecordOf(Lines)

\* the values of a record whose only quote opens a field that is never
\* closed: the fields before the quote, and one field of all that follows
UnterminatedValues(record) ==
    LET quote == CHOOSE k \in DOMAIN record : record[k] = Quote
        before == SubSeq(record, 1, quote - 1)
        after == SubSeq(record, quote + 1, Len(record))
        fields == Pieces(before, {k \in DOMAIN before : before[k] = Comma})
    IN [k \in DOMAIN fields |->
           IF k < Len(fields) THEN Trim(fields[k]) ELSE Trim(fields[k] \o after)]

\* C18: parseCSV returns a list of records for every text, the empty text,
\* a text of a header only and a text of unbalanced quotes among them; a
\* quoted field that is never closed ends at the end of the input, as if it
\* were closed there, and the text after its quote is part of it.
C18_NeverRaises ==
    ParsedAtBuild
       => /\ ~buildData.raised
          /\ Len(buildData.value) <= Len(Lines) - 1
          /\ Len(Lines) > 1
                => LET record == LastRecord
                       headers == ParseCSVLine(Lines[1])
                       values == UnterminatedValues(record)
                   IN /\ QuoteCount(record) % 2 = 1
                            => ParseCSVLine(record) = ParseCSVLine(record \o <<Quote>>)
                      /\ QuoteCount(record) = 1
                            => /\ ParseCSVLine(record) = values
                               /\ (~Blank(values) /\ DistinctNames(headers))
                                     => buildData.value[Len(buildData.value)] =
                                            Zip(headers, LAMBDA k : ValueAt(values, k))

\* a field that was never closed took in a comma and a newline after it
C18_Witness ==
    /\ ParsedAtBuild
    /\ ~buildData.raised
    /\ Len(Lines) = 3
    /\ ParseCSVLine(Lines[1])[1] = <<"h">>
    /\ QuoteCount(LastRecord) = 1
    /\ LastRecord[1] = Quote
    /\ Len(buildData.value) = 1
    /\ Comma \in Range(buildData.value[1][<<"h">>])
    /\ Newline \in Range(buildData.value[1][<<"h">>])

\* C19 compares two runs of a parser on one text.  parseCSV of build.js and
\* MetadataProcessor.parseCSV read nothing but their argument and keep nothing
\* between calls, so each is an operator of the text alone.

\* ------------------------------------------------------------------------
\* Properties of the build
\* ------------------------------------------------------------------------
Built == "buildPortfolio" \in called

\* the value of the column of a row of the table
Column(row, key) == row[CHOOSE k \in DOMAIN table.headers : table.headers[k] = key]

TitledRows == {r \in DOMAIN table.rows : Column(table.rows[r], KeyTitle) # <<>>}

\* the artworks of the catalog that have the title of the row
ArtworksOf(row) ==
    {n \in DOMAIN portfolioData.artworks :
        portfolioData.artworks[n].title = Column(row, KeyTitle)}

\* the collections of the catalog that list the id
CollectionsOf(id) ==
    {name \in DOMAIN portfolioData.collections :
        id \in Range(portfolioData.collections[name])}

\* row 1 priced and in no collection, row 2 featured, row 3 sold
ScenarioTable ==
    Table(InventoryHeaders,
          <<<<Titles[1], <<>>, <<"$", "1", Comma, "2", "0", "0">>, <<>>>>,
            <<Titles[2], <<"B", "i", "r", "d", "s">>, <<"$", "1", Comma, "2", "0", "0">>, <<"x">>>>,
            <<Titles[3], <<"B", "i", "r", "d", "s">>, <<"s", "o", "l", "d">>, <<>>>>>>)

\* C20: meta.totalArtworks, meta.collectionsCount and meta.featuredCount are
\* the numbers of artworks, of collections and of featured artworks of the
\* catalog; every titled row is one artwork, available iff its Pricing is
\* neither empty nor sold, featured iff its marker is x, and listed under its
\* collection or, without one, under All; the inventory of three rows yields
\* All holding row 1, featuredCount 1, row 3 unavailable and rows 1-2
\* available.
C20_CatalogCountsMatch ==
    (Built /\ table.known)
       => /\ portfolioData.meta.totalArtworks = Len(portfolioData.artworks)
          /\ portfolioData.meta.collectionsCount =
                Cardinality(DOMAIN portfolioData.collections)
          /\ portfolioData.meta.featuredCount =
                Cardinality({n \in DOMAIN portfolioData.artworks :
                                portfolioData.artworks[n].featured})
          /\ Len(portfolioData.artworks) = Cardinality(TitledRows)
          /\ \A r \in TitledRows :
                LET row == table.rows[r] IN
                /\ Cardinality(ArtworksOf(row)) = 1
                /\ \A n \in ArtworksOf(row) :
                      LET artwork == portfolioData.artworks[n] IN
                      /\ artwork.available =
                             (Column(row, KeyPricing) \notin {<<>>, <<"s", "o", "l", "d">>})
                      /\ artwork.featured = (Column(row, KeyFeatured) = <<"x">>)
                      /\ CollectionsOf(artwork.id) =
                             {IF Column(row, KeyCollection) = <<>>
                              THEN <<"A", "l", "l">>
                              ELSE Column(row, KeyCollection)}
          /\ table = ScenarioTable
                => /\ portfolioData.collections[<<"A", "l", "l">>] = <<GenerateId(Titles[1])>>
                   /\ portfolioData.meta.featuredCount = 1
                   /\ portfolioData.meta.totalArtworks = 3
                   /\ portfolioData.meta.collectionsCount = 2
                   /\ [n \in 1..3 |-> portfolioData.artworks[n].title] =
                         <<Titles[3], Titles[2], Titles[1]>>
                   /\ [n \in 1..3 |-> portfolioData.artworks[n].available] =
                         <<FALSE, TRUE, TRUE>>

\* the inventory of three rows was built
C20_Witness ==
    /\ Built
    /\ table = ScenarioTable
    /\ <<"A", "l", "l">> \in DOMAIN portfolioData.collections
    /\ portfolioData.meta.featuredCount = 1
    /\ \E n \in DOMAIN portfolioData.artworks : ~portfolioData.artworks[n].available

\* ------------------------------------------------------------------------
\* Properties of the catalog at run time
\* ------------------------------------------------------------------------
\* the row of the table that has the title
RowsTitled(title) ==
    {r \in DOMAIN table.rows : Column(table.rows[r], KeyTitle) = title}

\* C21: every artwork made of a row of the inventory, by the build or by
\* the processor, is available iff the Pricing of the row is neither empty
\* nor sold.
C21_AvailableIffPricedNotSold ==
    (step = "artworkMetadata" /\ table.known)
       => \A n \in DOMAIN thisArtworks :
             \A r \in RowsTitled(thisArtworks[n].title) :
                thisArtworks[n].available =
                    (Column(table.rows[r], KeyPricing) \notin {<<>>, <<"s", "o", "l", "d">>})

\* [a-z0-9]+(-[a-z0-9]+)*
MatchesSlug(s) ==
    /\ s # <<>>
    /\ \A k \in DOMAIN s : s[k] \in Range(LowerCase) \cup Digits \cup {Hyphen}
    /\ s[1] # Hyphen
    /\ s[Len(s)] # Hyphen
    /\ \A k \in 1..(Len(s) - 1) : ~(s[k] = Hyphen /\ s[k + 1] = Hyphen)

OnlyWhitespace(s) == \A k \in DOMAIN s : s[k] \in Whitespace

\* C23: for every name that is a string with a character other than white
\* space, normalizeCollectionName returns a string of [a-z0-9]+(-[a-z0-9]+)*.
C23_SlugMatchesPattern ==
    (normalized.called /\ collectionName # Absent /\ ~OnlyWhitespace(collectionName))
       => MatchesSlug(normalized.value)

\* C24: for the empty name and for a name of white space only,
\* normalizeCollectionName returns uncategorized.
C24_BlankIsUncategorized ==
    (normalized.called /\ collectionName # Absent /\ OnlyWhitespace(collectionName))
       => normalized.value = Uncategorized

\* processCollections has run
Processed == step = "processed" \/ (version = "part_001" /\ step = "returned")

\* the collection id that processCollections reads from the artwork
CollectionIdOf(artwork) ==
    IF version = "part_001" THEN NormalizeCollectionName(artwork.collection)
    ELSE artwork.collection

\* the collections that list the artwork
Listing(artwork) ==
    {id \in DOMAIN thisCollections : artwork \in Range(thisCollections[id].artworks)}

\* C26: after processCollections every artwork whose collection id was not
\* among the collections is in a collection made for it, which has that id
\* as its id and as its name, and every artwork is in some collection.
C26_UnknownCollectionSynthesized ==
    Processed
       => \A n \in DOMAIN thisArtworks :
             LET artwork == thisArtworks[n]
                 id == CollectionIdOf(artwork)
             IN /\ id \notin seeded
                      => /\ id \in Listing(artwork)
                         /\ thisCollections[id].id = id
                         /\ thisCollections[id].name = id
                /\ Listing(artwork) # {}

\* C27: the catalog that initialize() returns has no collection without
\* artworks.
C27_NoEmptyCollectionReturned ==
    catalog.returned
       => \A id \in DOMAIN catalog.collections :
             Len(catalog.collections[id].artworks) > 0

Gathering == {IdAll, IdFeatured}

ScriptBuilt == "scripts.buildPortfolio" \in called

\* the titles of the rows of the table that have one and that the test
\* admits, in the order of the rows
TitlesOfRows(admits(_)) ==
    LET rows == SelectSeq(table.rows,
                          LAMBDA row : Column(row, KeyTitle) # <<>> /\ admits(row))
    IN [k \in DOMAIN rows |-> Column(rows[k], KeyTitle)]

TitlesOf(artworks) == [k \in DOMAIN artworks |-> artworks[k].title]

\* C30: when no ordering is configured, or csv_order is, the artworks of
\* the built catalog, and the artworks of each of its collections, are in
\* the order of their rows in the inventory.
C30_SourceRowOrder ==
    /\ Built
          => /\ TitlesOf(portfolioData.artworks) = TitlesOfRows(LAMBDA row : TRUE)
             /\ \A c \in DOMAIN portfolioData.collections :
                   portfolioData.collections[c] =
                      LET listed == SelectSeq(portfolioData.artworks,
                                              LAMBDA artwork :
                                                 OrElse(artwork.collection, <<"A", "l", "l">>) = c)
                      IN [k \in DOMAIN listed |-> listed[k].id]
    /\ (ScriptBuilt /\ (~buildConfig.exists \/ buildConfig.artworkOrder = CsvOrder))
          => \A k \in DOMAIN scriptData.collections :
                LET collection == scriptData.collections[k] IN
                TitlesOf(collection.artworks) =
                   TitlesOfRows(LAMBDA row : Column(row, KeyCollection) = collection.id)

\* slug(s) as it is specified: lower case, a hyphen for every character
\* outside [a-z0-9], runs of hyphens collapsed, hyphens at the ends trimmed
SlugOf(title) == StripHyphens(CollapseHyphens(ReplaceOthers(ToLowerCase(title))))

\* the title and the id that are specified for the artwork of a row
TitleAndId(row) ==
    <<Column(row, KeyTitle),
      IF Column(row, KeyID) # <<>> THEN Column(row, KeyID)
      ELSE SlugOf(Column(row, KeyTitle))>>

\* the artworks of all the collections that the build script wrote
ScriptArtworks ==
    UNION {Range(scriptData.collections[k].artworks) : k \in DOMAIN scriptData.collections}

TitleAndReplacedId(row) ==
    <<Column(row, KeyTitle),
      IF Column(row, KeyID) # <<>> THEN Column(row, KeyID)
      ELSE ReplaceOthers(ToLowerCase(Column(row, KeyTitle)))>>

C29_UniqueIds ==
    /\ Built
          => \A m, n \in DOMAIN portfolioData.artworks :
                portfolioData.artworks[m].id = portfolioData.artworks[n].id => m = n
    /\ ScriptBuilt
          => \A k, l \in DOMAIN scriptData.collections :
                \A m \in DOMAIN scriptData.collections[k].artworks,
                   n \in DOMAIN scriptData.collections[l].artworks :
                   scriptData.collections[k].artworks[m].id
                      = scriptData.collections[l].artworks[n].id
                      => k = l /\ m = n

\* ------------------------------------------------------------------------
\* Properties of extractPrice
\* ------------------------------------------------------------------------
\* the characters i..j of the text are a $ and then digits or commas
IsAmount(text, i, j) ==
    /\ text[i] = "$"
    /\ i < j
    /\ \A k \in (i + 1)..j : text[k] \in Digits \cup {Comma}

\* C25: extractPrice returns the first $ of the text that a digit or a comma
\* follows, with all the digits and commas that follow it; the text as it is
\* when it has no such $; and the empty string when there is no text.
C25_PriceIsFirstAmountOrText ==
    price.called
       => LET text == pricingCell.text
              amounts == {<<i, j>> \in (DOMAIN text) \X (DOMAIN text) : IsAmount(text, i, j)}
          IN IF text = Absent \/ text = <<>> THEN price.value = <<>>
             ELSE IF amounts = {} THEN price.value = text
             ELSE \E <<i, j>> \in amounts :
                     /\ \A <<m, n>> \in amounts : i < m \/ (i = m /\ n <= j)
                     /\ price.value = SubSeq(text, i, j)

\* a price extracted from a text that has a $ without an amount before it
C25_Witness ==
    /\ price.called
    /\ pricingCell.text = <<"$", "$", "1", Comma>>
    /\ price.value = <<"$", "1", Comma>>

\* ------------------------------------------------------------------------
\* Properties of the catalog that the processor loads
\* ------------------------------------------------------------------------
\* getArtworkById(id): this.artworks.find(artwork => artwork.id === id),
\* the first artwork of the id, or undefined
GetArtworkById(list, id) ==
    IF \E k \in DOMAIN list : list[k].id = id
    THEN [found |-> TRUE,
          artwork |-> list[CHOOSE k \in DOMAIN list :
                              /\ list[k].id = id
                              /\ \A m \in DOMAIN list : list[m].id = id => k <= m]]
    ELSE [found |-> FALSE, artwork |-> Absent]

\* C31: when initialize() of js/metadata.js has loaded the portfolio.json
\* that a build wrote of the table, getArtworkById finds every artwork that
\* the build made of a titled row.
C31_BuiltArtworksAreLoaded ==
    (catalog.returned /\ version = "metadata.js" /\ table.known
        /\ portfolioJson.kind \in {"built", "script"})
       => \A k \in DOMAIN BuiltArtworks(table) :
             GetArtworkById(catalog.artworks, BuiltArtworks(table)[k].id).found

\* C32: when portfolio.json can not be loaded, initialize() of js/metadata.js
\* returns a catalog of no artworks and no collections.
C32_FailedLoadGivesEmptyCatalog ==
    (catalog.returned /\ version = "metadata.js" /\ portfolioJson.kind = "missing")
       => /\ Len(catalog.artworks) = 0
          /\ DOMAIN catalog.collections = {}

\* ------------------------------------------------------------------------
\* Properties of the navigation of a collection row
\* ------------------------------------------------------------------------
\* the largest scroll position of the row: max(0, contentWidth - viewportWidth)
MaxScrollPosition == Max(0, scrollWidth - clientWidth)

Within(x, low, high) == IF x < low THEN low ELSE IF x > high THEN high ELSE x

\* C33: every click of the previous or the next button moves the scroll
\* position by exactly 250 in its direction and then clamps it to
\* [0, max(0, contentWidth - viewportWidth)], also when the content is
\* narrower than the viewport.
C33_StepMovesAndClamps ==
    [][/\ navOp' = "prev" =>
            scrollPosition' = Within(scrollPosition - 250, 0, MaxScrollPosition)
       /\ navOp' = "next" =>
            scrollPosition' = Within(scrollPosition + 250, 0, MaxScrollPosition)]_vars

\* the next button was clicked in a row whose content is narrower than the
\* viewport, and the row stays at 0
C33_Witness ==
    /\ navOp = "next"
    /\ scrollWidth < clientWidth
    /\ scrollPosition = 0
    /\ translateX = 0

\* C34: a touch gesture steps the row iff the horizontal distance between the
\* touch start of that gesture and its last touch position exceeds 50; a tap
\* (touchstart directly followed by touchend) steps nothing, whatever
\* gestures preceded it.
C34_SwipeIffMovedOverThreshold ==
    navOp = "touchend" => (swiped # "none" <=> Abs(startX - touchLast) > threshold)

\* C39: the translation applied to the artworks container equals the stored
\* scroll position of the row at all times, also right after a re-render
\* that restored a saved position.
C39_TranslationIsScrollPosition ==
    navOp # "none" => translateX = scrollPosition

\* C40: the stored scroll position is within
\* [0, max(0, contentWidth - viewportWidth)] in every reachable state, also
\* after the content width or the viewport width has changed.
C40_ScrollPositionInRange ==
    navOp # "none" => /\ 0 <= scrollPosition
                      /\ scrollPosition <= MaxScrollPosition

\* ------------------------------------------------------------------------
\* Properties of the viewer without momentum
\* ------------------------------------------------------------------------
\* C37: in the viewer of galorio-static/js/artwork-detail.js, after any
\* sequence of zoom-in, zoom-out, wheel-zoom, drag-start, drag-move, drag-end
\* and reset, imageOffset is (0, 0) whenever zoomLevel <= 1.
C37_StaticOffsetZeroAtOrBelowUnit ==
    (page = "static" /\ zoomLevel <= Unit) => imageOffset = Zero

\* ------------------------------------------------------------------------
\* Properties of resetZoom in the viewer with momentum
\* ------------------------------------------------------------------------
\* C38: after resetZoom the viewer with momentum is idle: isDragging is
\* false, no momentum frame is pending, zoomLevel is 1, imageOffset and
\* velocity are (0, 0); a drag that was in progress at the reset does not go
\* on from its old anchor after a later zoom-in.
C38_ResetLeavesViewerIdle ==
    (page = "enhanced" /\ lastOp.name \in {"reset", "imageLoad"})
       => /\ ~isDragging
          /\ momentumAnimationId = "null"
          /\ rafMomentum = 0
          /\ zoomLevel = Unit
          /\ imageOffset = Zero
          /\ velocity = Zero

\* ------------------------------------------------------------------------
\* Properties of the rows of a collection that is rendered again
\* ------------------------------------------------------------------------
\* C35: a probe result that arrives after renderCollections was called again
\* is never applied to the row that is displayed: the event of an image of a
\* superseded row changes nothing in the row in the container.
C35_StaleProbeLeavesDisplayedRow ==
    [][(settled'.row # 0 /\ settled'.row # displayed')
          => renderedRows'[displayed'] = renderedRows[displayed']]_vars

\* the last probe of a superseded row has settled after the re-render and
\* sized that row, and the row in the container is not sized
C35_Witness ==
    /\ settled.row # 0
    /\ settled.row < displayed
    /\ renderedRows[settled.row].allState = "fulfilled"
    /\ renderedRows[settled.row].rowHeight.k = "num"
    /\ renderedRows[displayed].rowHeight.k = "unset"

\* ------------------------------------------------------------------------
\* Properties of the progressive loading of an artwork
\* ------------------------------------------------------------------------
\* the swap of element g replaced the image that was shown when the
\* background load was started
SwapsOverStarted(g) ==
    thumbnails[g].swaps > 0 => thumbnails[g].swappedOver = thumbnails[g].startedFor

====
